---- MODULE Spec2Model ----
(***************************************************************************)
(* Shader instances, shader groups and LLVM code generation of             *)
(* liboslexec (instance.cpp, llvm_gen.cpp).                                *)
(*                                                                         *)
(* Conventions.  C++ indices and offsets are kept 0-based; a TLA+ sequence *)
(* s models the vector v with v[i] = s[i+1].  A float is represented by    *)
(* the integer it is numerically equal to (only integer-valued floats are  *)
(* drawn), a string by the sequence of its character codes.  Byte sizes    *)
(* are kept: int and float take 4 bytes, a ustring 8.                      *)
(***************************************************************************)
EXTENDS Integers, Sequences, FiniteSets, TLC

VARIABLES m_layers, m_optimized, pc, cfg, last, nbind, nconn, ncopy, cg, gen,
          stat, arr, dual, dict, ll

vars == <<m_layers, m_optimized, pc, cfg, last, nbind, nconn, ncopy, cg, gen,
          stat, arr, dual, dict, ll>>

\* ------------------------------------------------------------------ bounds
MaxLayers == 2
MaxBind == 2
MaxConn == 1
MaxCopy == 2
MaxOps == 4

\* ---------------------------------------------------------------- TypeDesc
\* arraylen: 0 = not an array, -1 = array of indefinite length, n > 0 = sized.
TypeOf(b, a, n) == [base |-> b, agg |-> a, arraylen |-> n]
TypeFloat == TypeOf("float", 1, 0)
TypeInt == TypeOf("int", 1, 0)
TypeString == TypeOf("string", 1, 0)
TypeColor == TypeOf("float", 3, 0)
TypeClosure == TypeOf("closure", 1, 0)
TypeStruct == TypeOf("struct", 1, 0)

is_closure_based(t) == t.base = "closure"
is_structure(t) == t.base = "struct"
is_unsized_array(t) == t.arraylen < 0
is_sized_array(t) == t.arraylen > 0
is_vec3(t) == t.base = "float" /\ t.agg = 3 /\ t.arraylen = 0

\* TypeDesc::numelements(), basevalues(), size(): an array of indefinite
\* length counts as ONE element (release builds; the debug assertion is off).
numelements(t) == IF t.arraylen >= 1 THEN t.arraylen ELSE 1
basevalues(t) == numelements(t) * t.agg
basesize(t) == IF t.base = "string" THEN 8 ELSE IF t.base \in {"int", "float"} THEN 4 ELSE 0
size(t) == basevalues(t) * basesize(t)
\* number of pool elements that `bytes' bytes of type t cover
ElemsOf(t, bytes) == IF basesize(t) = 0 THEN 0 ELSE bytes \div basesize(t)

\* OIIO equivalent(TypeDesc, TypeDesc)
equivalent_type(a, b) ==
    /\ a.base = b.base
    /\ a.agg = b.agg
    /\ \/ a.arraylen = b.arraylen
       \/ is_unsized_array(a) /\ is_sized_array(b)
       \/ is_sized_array(a) /\ is_unsized_array(b)

compatible_param(a, b) == equivalent_type(a, b) \/ (is_vec3(a) /\ b = TypeFloat)

\* relaxed-typecheck mode: any numerically convertible pairing of equal base
\* type: same number of base values, or a whole number of elements for an
\* array of indefinite length, or one float for a float-based non-array.
relaxed_equivalent(a, b) ==
    \/ equivalent_type(a, b)
    \/ /\ a.base = b.base
       /\ a.base \in {"int", "float"}
       /\ \/ is_unsized_array(a) /\ basevalues(b) % a.agg = 0 /\ basevalues(b) >= a.agg
          \/ ~is_unsized_array(a) /\ basevalues(a) = basevalues(b)
          \/ a.arraylen = 0 /\ b = TypeFloat

\* Floats are modelled by the non-negative integers a float can hold.  A
\* float has 24 bits of mantissa: the floats at and above 2^24 are s apart,
\* s the spacing, and a value in between is rounded to the nearest, ties to
\* the even mantissa.
Spacing(v) == CHOOSE s \in {1, 2, 4, 8, 16, 32, 64, 128} :
                 /\ v \div s < 16777216
                 /\ (s = 1 \/ v \div (s \div 2) >= 16777216)
RoundTo(v, s) ==
    LET q == v \div s
        r == v % s
    IN IF 2 * r < s \/ (2 * r = s /\ q % 2 = 0) THEN q * s ELSE (q + 1) * s

\* float(int) and int(float)
FloatOfInt(v) == RoundTo(v, Spacing(v))
IntOfFloat(f) == f

\* ------------------------------------------------------------------ Master
\* Symbol of a master: parameters first, then a global, a constant, a temp.
\* A parameter with init ops has them in the op range [initbegin, initend);
\* no symbol is the field of a struct (fieldid -1); data is the value of a
\* constant.
MSym(nm, st, ty, off, ninit, initops, interp) ==
    [name |-> nm, symtype |-> st, type |-> ty, dataoffset |-> off,
     initializers |-> ninit, has_init_ops |-> initops,
     initbegin |-> 0, initend |-> IF initops THEN 1 ELSE 0, fieldid |-> -1,
     data |-> IF st = "const" THEN <<1>> ELSE <<>>,
     valuesource |-> "Default", connected_down |-> FALSE,
     interpolated |-> interp, interactive |-> FALSE,
     renderer_output |-> FALSE,
     everused |-> st \in {"param", "oparam"}, everwritten |-> st = "global",
     has_derivs |-> FALSE]

MatteSymbols ==
    << MSym("Kd", "param", TypeFloat, 0, 1, FALSE, FALSE),
       MSym("tint", "param", TypeColor, 1, 1, FALSE, FALSE),
       MSym("arr", "param", TypeOf("float", 1, -1), 4, 1, FALSE, FALSE),
       MSym("idx", "param", TypeInt, 0, 1, TRUE, FALSE),
       MSym("label", "param", TypeString, 0, 1, FALSE, FALSE),
       MSym("Ci", "param", TypeClosure, 0, 0, FALSE, FALSE),
       MSym("st", "param", TypeStruct, 0, 0, FALSE, FALSE),
       MSym("out", "oparam", TypeFloat, 5, 1, FALSE, FALSE),
       MSym("oarr", "oparam", TypeOf("float", 1, 2), 6, 2, FALSE, FALSE),
       MSym("P", "global", TypeColor, 0, 0, FALSE, FALSE),
       MSym("$const1", "const", TypeFloat, 0, 1, FALSE, FALSE),
       MSym("$tmp1", "temp", TypeFloat, 0, 0, FALSE, FALSE) >>

\* A master is immutable and shared.  "null" is the degenerate master of an
\* empty shader body: no symbols, no ops, no args.
Master(m) ==
    IF m = "matte"
    THEN [symbols |-> MatteSymbols,
          ops |-> <<"assign", "useparam", "assign", "end">>,
          args |-> <<3, 0, 7, 0>>,
          idefaults |-> <<0>>,
          fdefaults |-> <<8, 1, 1, 1, 5, 0, 0, 0>>,
          sdefaults |-> << <<97>> >>,
          firstparam |-> 0, lastparam |-> 9,
          maincodebegin |-> 1, maincodeend |-> 4]
    ELSE [symbols |-> <<>>, ops |-> <<>>, args |-> <<>>,
          idefaults |-> <<>>, fdefaults |-> <<>>, sdefaults |-> <<>>,
          firstparam |-> -1, lastparam |-> -1,
          maincodebegin |-> 0, maincodeend |-> 0]

Masters == {"matte", "null"}

Max0(n) == IF n > 0 THEN n ELSE 0

\* ---------------------------------------------------------- ShaderInstance
\* SymOverrideInfo as default-constructed
NoOverride ==
    [valuesource |-> "Default", arraylen |-> 0, dataoffset |-> 0,
     interpolated |-> FALSE, interactive |-> FALSE, connected_down |-> FALSE]

\* ShaderMaster::findsymbol as the constructor uses it (lines 54-55): the
\* index of the symbol of that name, -1 when there is none
master_findsymbol(m, name) ==
    LET found == {k \in 1 .. Len(Master(m).symbols) : Master(m).symbols[k].name = name}
    IN IF found = {} THEN -1 ELSE (CHOOSE k \in found : \A j \in found : k <= j) - 1

\* std::vector as libstdc++ allocates it, in elements.  The capacity after n
\* elements are added at the end of a vector of `len' elements (resize,
\* emplace_back): storage that is too small is replaced by storage for
\* len + max(len, n) elements
grown_capacity(cap, len, n) ==
    IF len + n <= cap THEN cap ELSE len + (IF len > n THEN len ELSE n)

\* the capacity after the copy assignment of a vector of n elements: storage
\* that is large enough is kept
assigned_capacity(cap, n) == IF n > cap THEN n ELSE cap

\* the capacity of each vector of an instance that the statistics measure
NoCapacity ==
    [instoverrides |-> 0, iparams |-> 0, fparams |-> 0, sparams |-> 0,
     connections |-> 0, instsymbols |-> 0]

\* vectorbytes(m_v): capacity() * sizeof(T), in units of one element
vectorbytes(inst, v) == inst.capacity[v]

\* ShaderInstance::ShaderInstance: nothing is copied from the master yet.
\* `given' is history: the names of the parameters that were given a value.
NewInstance(m, lname, lazy) ==
    [master |-> m, layername |-> lname, run_lazily |-> lazy,
     instoverrides |-> <<>>, iparams |-> <<>>, fparams |-> <<>>, sparams |-> <<>>,
     connections |-> <<>>, instsymbols |-> <<>>, instops |-> <<>>, instargs |-> <<>>,
     capacity |-> NoCapacity,
     renderer_outputs |-> FALSE, userdata_params |-> FALSE, writes_globals |-> FALSE,
     given |-> {},
     Psym |-> master_findsymbol(m, "P"), Nsym |-> master_findsymbol(m, "N"),
     firstparam |-> Master(m).firstparam, lastparam |-> Master(m).lastparam,
     maincodebegin |-> Master(m).maincodebegin, maincodeend |-> Master(m).maincodeend]

mastersymbol(inst, i) == Master(inst.master).symbols[i + 1]
symbol(inst, i) == inst.instsymbols[i + 1]

\* ShaderInstance::findparam (search_master = true); -1 when absent
findparam(inst, name) ==
    LET own == {i \in inst.firstparam .. inst.lastparam - 1 :
                    Len(inst.instsymbols) > 0 /\ symbol(inst, i).name = name}
        mst == {i \in inst.firstparam .. inst.lastparam - 1 :
                    mastersymbol(inst, i).name = name}
        Min(S) == CHOOSE x \in S : \A y \in S : x <= y
    IN IF own # {} THEN Min(own) ELSE IF mst # {} THEN Min(mst) ELSE -1

\* the indices of the parameters of an instance
ParamRange(inst) == inst.firstparam .. inst.lastparam - 1

\* The pool a type lives in
PoolName(t) == IF t.base = "int" THEN "iparams"
               ELSE IF t.base = "float" THEN "fparams"
               ELSE IF t.base = "string" THEN "sparams" ELSE "null"

\* ShaderInstance::param_storage: the pool and the offset a parameter's value
\* is read from.  An override with a non-zero array length carries its own
\* offset; otherwise the symbol's offset is used.
param_offset(inst, index) ==
    LET sym == IF Len(inst.instsymbols) > 0 THEN symbol(inst, index)
               ELSE mastersymbol(inst, index)
    IN IF Len(inst.instoverrides) > 0 /\ inst.instoverrides[index + 1].arraylen # 0
       THEN inst.instoverrides[index + 1].dataoffset
       ELSE sym.dataoffset

param_pool(inst, index) ==
    LET sym == IF Len(inst.instsymbols) > 0 THEN symbol(inst, index)
               ELSE mastersymbol(inst, index)
    IN PoolName(sym.type)

\* A read of n elements at offset off leaves the pool: the pointer is
\* &pool[off] of a vector that does not hold the elements (null for an empty
\* vector), and what a read through it gives, or whether it returns at all,
\* is not defined.
past_end(pool, off, n) == n > 0 /\ off + n > Len(pool)
Undefined == "undefined"

\* n pool elements starting at offset off, or Undefined
ReadPool(pool, off, n) ==
    IF past_end(pool, off, n) THEN Undefined ELSE [k \in 1 .. n |-> pool[off + k]]

\* memcpy of the elements of data to offset off of pool
WritePool(pool, off, data) ==
    [k \in 1 .. Len(pool) |->
        IF k > off /\ k <= off + Len(data) THEN data[k - off] ELSE pool[k]]

\* the n elements param_storage(index) points at
param_storage(inst, index, n) ==
    LET pn == param_pool(inst, index)
    IN IF pn = "null" THEN <<>> ELSE ReadPool(inst[pn], param_offset(inst, index), n)

\* reading n elements at param_storage(index) leaves the pool
param_storage_undefined(inst, index, n) ==
    LET pn == param_pool(inst, index)
    IN pn # "null" /\ past_end(inst[pn], param_offset(inst, index), n)

\* expand(vec, n): vec.resize(vec.size() + n), n more value-initialized
\* elements at the end
ZeroOf(pn) == IF pn = "sparams" THEN <<>> ELSE 0
expand(pool, pn, n) == pool \o [k \in 1 .. n |-> ZeroOf(pn)]

\* ShaderMaster::param_default_storage
param_default_storage(m, i, n) ==
    LET sm == Master(m).symbols[i + 1]
        pool == IF sm.type.base = "int" THEN Master(m).idefaults
                ELSE IF sm.type.base = "float" THEN Master(m).fdefaults
                ELSE Master(m).sdefaults
    IN ReadPool(pool, sm.dataoffset, n)

\* ShaderInstance::parameters, lines 191-205: seed the pools with the
\* master's defaults and the overrides with the master's flags and offsets
parameters_seed(inst) ==
    LET M == Master(inst.master)
        n == Max0(inst.lastparam)
    IN [inst EXCEPT
          !.iparams = M.idefaults, !.fparams = M.fdefaults, !.sparams = M.sdefaults,
          !.capacity =
              [@ EXCEPT
                 !.iparams = assigned_capacity(@, Len(M.idefaults)),
                 !.fparams = assigned_capacity(@, Len(M.fdefaults)),
                 !.sparams = assigned_capacity(@, Len(M.sdefaults)),
                 !.instoverrides =
                     grown_capacity(@, Len(inst.instoverrides),
                                    Max0(n - Len(inst.instoverrides)))],
          !.instoverrides =
              [i \in 1 .. n |->
                  [(IF i <= Len(inst.instoverrides) THEN inst.instoverrides[i]
                    ELSE NoOverride)
                   EXCEPT !.interpolated = M.symbols[i].interpolated,
                          !.interactive = M.symbols[i].interactive,
                          !.dataoffset = M.symbols[i].dataoffset]]]

\* One iteration of the loop of ShaderInstance::parameters (lines 207-351)
\* for the ParamValue p = [name, type, data] with the hint h = [interpolated,
\* interactive].  Yields the instance after the iteration, the severity of
\* the diagnostic it gave ("none", "warning", "error") and whether the value
\* was bound.
Rejected(inst, sev, why) == [inst |-> inst, diag |-> sev, bound |-> FALSE, why |-> why]

\* relaxed mode (lines 237-250): an int given to a float or a triple is
\* converted to float first, and a conversion that changes the value is an
\* error that does not stop the binding
convert_value(paramtype, p, relaxed) ==
    LET conv == relaxed /\ (paramtype = TypeFloat \/ is_vec3(paramtype))
                  /\ p.type.base = "int" /\ basevalues(p.type) = 1
    IN [data |-> IF conv THEN <<FloatOfInt(p.data[1])>> ELSE p.data,
        type |-> IF conv THEN TypeFloat ELSE p.type,
        lossy |-> conv /\ p.data[1] # IntOfFloat(FloatOfInt(p.data[1]))]

\* the type check of lines 252-266
type_rejected(paramtype, valuetype, relaxed) ==
    IF relaxed THEN ~relaxed_equivalent(paramtype, valuetype)
    ELSE ~compatible_param(paramtype, valuetype)

\* lines 293-322 (mutant: the array is written where the master's default is)
alloc_unsized_inplace(inst, i, pn, nelements) ==
    [inst EXCEPT
       !.instoverrides[i + 1].arraylen = nelements \div mastersymbol(inst, i).type.agg,
       !.instoverrides[i + 1].dataoffset = mastersymbol(inst, i).dataoffset]

\* lines 293-322: a parameter that is an array of indefinite length takes the
\* length of the value, and room for it is appended to the pool
alloc_unsized(inst, i, pn, nelements) ==
    [inst EXCEPT
       !.instoverrides[i + 1].arraylen = nelements \div mastersymbol(inst, i).type.agg,
       !.instoverrides[i + 1].dataoffset = Len(inst[pn]),
       ![pn] = expand(@, pn, nelements),
       !.capacity[pn] = grown_capacity(@, Len(inst[pn]), nelements)]

\* lines 336-338 (mutant: a value is never recognised as the default)
is_default_never(inst, i, lockg, data) == FALSE

\* lines 336-338: the value is the master's default, bit for bit, and nothing
\* else decides the parameter's value
is_default(inst, i, lockg, data) ==
    /\ lockg /\ ~mastersymbol(inst, i).has_init_ops
    /\ param_default_storage(inst.master, i, Len(data)) = data

\* lines 269-346: mark the override, pass on the hints, replicate a float
\* given to a triple, make room or revert to Default, copy the data in place
store_value(inst, i, data0, vtype0, h) ==
    LET sm == mastersymbol(inst, i)
        paramtype == sm.type
        interp == sm.interpolated \/ h.interpolated
        inter == h.interactive
        lockg == ~interp /\ ~inter
        bcast == is_vec3(paramtype) /\ vtype0 = TypeFloat
        data == IF bcast THEN <<data0[1], data0[1], data0[1]>> ELSE data0
        valuetype == IF bcast THEN paramtype ELSE vtype0
        pn == PoolName(paramtype)
        unsized == paramtype.arraylen < 0
        marked == [inst EXCEPT !.instoverrides[i + 1].valuesource = "Instance",
                               !.instoverrides[i + 1].interpolated = interp,
                               !.instoverrides[i + 1].interactive = inter]
        placed == IF unsized THEN alloc_unsized(marked, i, pn, basevalues(valuetype))
                  ELSE IF is_default(marked, i, lockg, data)
                  THEN [marked EXCEPT !.instoverrides[i + 1].valuesource = "Default"]
                  ELSE marked
    IN [placed EXCEPT ![pn] = WritePool(@, param_offset(placed, i), data),
                      !.given = @ \cup {sm.name}]

\* lines 228-346 (mutant: the override is marked as an instance value before
\* the type is checked)
bind_value_marks_first(inst, i, p, h, relaxed) ==
    LET paramtype == mastersymbol(inst, i).type
        c == convert_value(paramtype, p, relaxed)
        marked == [inst EXCEPT !.instoverrides[i + 1].valuesource = "Instance"]
    IN IF type_rejected(paramtype, c.type, relaxed)
       THEN Rejected(marked, IF relaxed THEN "error" ELSE "warning", "type")
       ELSE [inst |-> store_value(inst, i, c.data, c.type, h),
             diag |-> IF c.lossy THEN "error" ELSE "none",
             bound |-> TRUE, why |-> "bound"]

\* lines 228-346: the value is converted, checked and stored
bind_value(inst, i, p, h, relaxed) ==
    LET paramtype == mastersymbol(inst, i).type
        c == convert_value(paramtype, p, relaxed)
    IN IF type_rejected(paramtype, c.type, relaxed)
       THEN Rejected(inst, IF relaxed THEN "error" ELSE "warning", "type")
       ELSE [inst |-> store_value(inst, i, c.data, c.type, h),
             diag |-> IF c.lossy THEN "error" ELSE "none",
             bound |-> TRUE, why |-> "bound"]

parameters_entry(inst, p, h, relaxed) ==
    LET i == findparam(inst, p.name)
    IN IF p.name = "" THEN Rejected(inst, "none", "empty")
       ELSE IF i < 0 THEN Rejected(inst, "warning", "nonexistent")
       ELSE IF is_closure_based(mastersymbol(inst, i).type)
            THEN Rejected(inst, "warning", "closure")
       ELSE IF is_structure(mastersymbol(inst, i).type)
            THEN Rejected(inst, "none", "structure")
       ELSE bind_value(inst, i, p, h, relaxed)

\* ShaderInstance::parameters (lines 187-365) from entry k of the list on:
\* every entry is taken in turn, whatever became of the ones before it
RECURSIVE parameters_from(_, _, _, _)
parameters_from(inst, params, k, relaxed) ==
    IF k > Len(params) THEN inst
    ELSE parameters_from(parameters_entry(inst, params[k][1], params[k][2], relaxed).inst,
                         params, k + 1, relaxed)

\* ShaderInstance::parameters: params is a list of <<ParamValue, hint>>
parameters(inst, params, relaxed) ==
    parameters_from(parameters_seed(inst), params, 1, relaxed)

\* ConnectedParam and Connection
ConnectedParam(param, ty) == [param |-> param, arrayindex |-> -1, channel |-> -1, type |-> ty]
Connection(srclayer, src, dst) == [srclayer |-> srclayer, src |-> src, dst |-> dst]

\* ShaderInstance::add_connection (lines 392-437).  A destination that is an
\* array of indefinite length takes the source's length, whatever the
\* source's base type (line 399); for a float, int or string source, storage
\* is appended to the pool: expand() is given type.size(), a byte count.
\* Line 398 takes the address of m_instoverrides[dstcon.param] and line 399
\* writes through it: when the vector does not hold that entry (it is empty
\* before parameters() and after copy_code_from_master) the write goes
\* through a pointer formed from the null data() of the vector, and the
\* process dies; `fatal' is "undefined" then and `inst' the instance as it
\* was.
add_connection(inst, srclayer, srccon, dstcon) ==
    LET ty == srccon.type
        pn == PoolName(ty)
        so == [inst.instoverrides[dstcon.param + 1] EXCEPT !.arraylen = ty.arraylen]
        sized == [inst EXCEPT !.instoverrides[dstcon.param + 1] = so]
        special == IF ~is_unsized_array(dstcon.type) THEN inst
                   ELSE IF pn = "null" THEN sized
                   ELSE [sized EXCEPT
                           !.instoverrides[dstcon.param + 1].dataoffset = Len(inst[pn]),
                           ![pn] = expand(@, pn, size(ty)),
                           !.capacity[pn] = grown_capacity(@, Len(inst[pn]), size(ty))]
    IN IF is_unsized_array(dstcon.type) /\ dstcon.param + 1 > Len(inst.instoverrides)
       THEN [inst |-> inst, fatal |-> "undefined"]
       ELSE [inst |-> [special EXCEPT
                         !.connections = Append(@, Connection(srclayer, srccon, dstcon)),
                         !.capacity.connections =
                             grown_capacity(@, Len(inst.connections), 1)],
             fatal |-> "none"]

\* Symbol::lockgeom and Symbol::connected
lockgeom(s) == ~s.interpolated /\ ~s.interactive
connected(s) == s.valuesource = "Connected"

\* the symbols a range-for visits before it breaks at the first temp
UpToFirstTemp(syms) ==
    LET temps == {k \in 1 .. Len(syms) : syms[k].symtype = "temp"}
        first == IF temps = {} THEN Len(syms)
                 ELSE CHOOSE k \in temps : \A j \in temps : k <= j
    IN 1 .. first

\* ShaderInstance::evaluate_writes_globals_and_userdata_params (lines 441-465)
evaluate_writes_globals_and_userdata_params(inst) ==
    LET syms == inst.instsymbols
        seen == UpToFirstTemp(syms)
    IN [inst EXCEPT
          !.writes_globals =
              \E k \in seen : syms[k].symtype = "global" /\ syms[k].everwritten,
          !.userdata_params =
              \/ \E k \in seen : /\ syms[k].symtype \in {"param", "oparam"}
                                 /\ ~lockgeom(syms[k]) /\ ~connected(syms[k])
              \/ \E k \in 1 .. Len(inst.instoverrides) : inst.instoverrides[k].interpolated]

\* the override of slot i applied to the copied symbol (lines 490-510)
apply_override(inst, si, ov, routputs) ==
    LET fixed == IF ov.valuesource = "Default"
                 THEN IF is_unsized_array(si.type)
                      THEN [si EXCEPT !.type.arraylen = si.initializers] ELSE si
                 ELSE [si EXCEPT
                         !.type.arraylen = IF ov.arraylen # 0 THEN ov.arraylen ELSE @,
                         !.valuesource = ov.valuesource,
                         !.connected_down = ov.connected_down,
                         !.interpolated = ov.interpolated,
                         !.interactive = ov.interactive,
                         !.dataoffset = ov.dataoffset]
    IN [fixed EXCEPT !.renderer_output = @ \/ <<inst.layername, si.name>> \in routputs]

\* ShaderInstance::copy_code_from_master (lines 469-524).  OSL_ASSERT aborts
\* the process in every build; `fatal' names the assertion that fired and
\* `inst' is the instance as it was when it fired.
copy_code_from_master(inst, routputs) ==
    LET M == Master(inst.master)
        np == Max0(inst.lastparam)
        s1 == [inst EXCEPT !.instops = M.ops, !.instargs = M.args]
        s2 == [s1 EXCEPT !.instsymbols = M.symbols,
                         !.capacity.instsymbols = assigned_capacity(@, Len(M.symbols))]
        syms == [k \in 1 .. Len(M.symbols) |->
                    IF Len(inst.instoverrides) > 0 /\ k <= np
                    THEN apply_override(inst, M.symbols[k], inst.instoverrides[k], routputs)
                    ELSE M.symbols[k]]
        s3 == [s2 EXCEPT
                 !.instsymbols = syms,
                 !.renderer_outputs =
                     @ \/ \E k \in 1 .. np : Len(inst.instoverrides) > 0
                                              /\ syms[k].renderer_output]
        s4 == evaluate_writes_globals_and_userdata_params(s3)
        s5 == [s4 EXCEPT !.instoverrides = <<>>, !.capacity.instoverrides = 0]
    IN IF ~(Len(inst.instops) = 0 /\ Len(inst.instargs) = 0)
       THEN [inst |-> inst, fatal |-> "instops"]
       ELSE IF Len(inst.instsymbols) # 0
       THEN [inst |-> s1, fatal |-> "instsymbols"]
       ELSE IF Len(inst.instoverrides) # np
       THEN [inst |-> s2, fatal |-> "instoverrides"]
       ELSE IF Len(M.symbols) < np
       THEN [inst |-> s2, fatal |-> "lastparam"]
       ELSE [inst |-> s5, fatal |-> "none"]

\* ------------------------------------------------------------- mergeable
\* equivalent(SymOverrideInfo, SymOverrideInfo): same value source and same
\* array length
equivalent_override(a, b) ==
    a.valuesource = b.valuesource /\ a.arraylen = b.arraylen

\* equivalent(const Symbol&, const Symbol&), lines 571-595
equivalent_symbol(a, b) ==
    \/ ~a.everused /\ ~b.everused
    \/ /\ a.symtype = b.symtype /\ a.type = b.type
       /\ (a.symtype \notin {"temp", "const"} => a.name = b.name)
       /\ a.has_derivs = b.has_derivs /\ lockgeom(a) = lockgeom(b)
       /\ (a.symtype = "const" => a.data = b.data)
       /\ a.valuesource = b.valuesource
       /\ a.fieldid = b.fieldid
       /\ a.initbegin = b.initbegin /\ a.initend = b.initend

\* equivalent(std::vector<T>, std::vector<T>), lines 553-564
equivalent_symbols(a, b) ==
    Len(a) = Len(b) /\ \A k \in 1 .. Len(a) : equivalent_symbol(a[k], b[k])

optimized(inst) == Len(inst.instsymbols) # 0 \/ Len(inst.instops) # 0

InstOrDefault(vs) == vs \in {"Default", "Instance"}

\* one iteration of the override loop (lines 624-653) returns false
override_disqualifies(a, b, i, used) ==
    LET oa == a.instoverrides[i + 1]
        ob == b.instoverrides[i + 1]
    IN /\ ~(InstOrDefault(oa.valuesource) /\ InstOrDefault(ob.valuesource))
       /\ IF ~equivalent_override(oa, ob)
          THEN mastersymbol(a, i).name \in used \/ mastersymbol(b, i).name \in used
          ELSE oa.interpolated # ob.interpolated \/ oa.interactive # ob.interactive

\* lines 660-676: the memcmp of iteration i is executed
value_compared(a, i, used) ==
    LET sym == IF optimized(a) THEN symbol(a, i) ELSE mastersymbol(a, i)
    IN /\ sym.name \in used
       /\ ~is_closure_based(sym.type)
       /\ InstOrDefault(sym.valuesource)

\* the memcmp of iteration i reads past the end of a pool of a or of b
value_undefined(a, b, i, used) ==
    LET sym == IF optimized(a) THEN symbol(a, i) ELSE mastersymbol(a, i)
        n == ElemsOf(sym.type, size(sym.type))
    IN /\ value_compared(a, i, used)
       /\ param_storage_undefined(a, i, n) \/ param_storage_undefined(b, i, n)

\* lines 660-676 (mutant: the interactive flag of b's symbol is not looked at)
value_disqualifies_nointeractive(a, b, i, used) ==
    LET opt == optimized(a)
        sym == IF opt THEN symbol(a, i) ELSE mastersymbol(a, i)
        n == ElemsOf(sym.type, size(sym.type))
    IN /\ value_compared(a, i, used)
       /\ ~value_undefined(a, b, i, used)
       /\ param_storage(a, i, n) # param_storage(b, i, n)

\* one iteration of the parameter-value loop (lines 660-676) returns false
value_disqualifies(a, b, i, used) ==
    LET opt == optimized(a)
        sym == IF opt THEN symbol(a, i) ELSE mastersymbol(a, i)
        b_sym == IF opt THEN symbol(b, i) ELSE mastersymbol(b, i)
        n == ElemsOf(sym.type, size(sym.type))
    IN /\ value_compared(a, i, used)
       /\ ~value_undefined(a, b, i, used)
       /\ \/ param_storage(a, i, n) # param_storage(b, i, n)
          \/ b_sym.interactive

\* the first iteration of the parameter-value loop that ends it: by
\* returning false, or by a memcmp that is not defined; -1 when none does
value_loop_end(a, b, used) ==
    LET ends == {i \in a.firstparam .. a.lastparam - 1 :
                    value_undefined(a, b, i, used) \/ value_disqualifies(a, b, i, used)}
    IN IF ends = {} THEN -1 ELSE CHOOSE i \in ends : \A j \in ends : i <= j

\* ShaderInstance::mergeable (lines 599-731): "true", "false", "fatal" when
\* one of its OSL_ASSERTs fires, or "undefined" when it compares values that
\* lie past the end of a pool (it may then return either, or not return)
mergeable_result(a, b, c) ==
    LET has_ov == Len(a.instoverrides) > 0 \/ Len(b.instoverrides) > 0
        ended == value_loop_end(a, b, c.used)
    IN IF a.master # b.master THEN "false"
       ELSE IF a.renderer_outputs \/ b.renderer_outputs THEN "false"
       ELSE IF has_ov /\ optimized(a) THEN "fatal"
       ELSE IF has_ov /\ Len(a.instoverrides) # Len(b.instoverrides) THEN "fatal"
       ELSE IF has_ov /\ \E i \in 0 .. Len(a.instoverrides) - 1 :
                             override_disqualifies(a, b, i, c.used)
       THEN "false"
       ELSE IF ended >= 0 /\ value_undefined(a, b, ended, c.used) THEN Undefined
       ELSE IF ended >= 0 THEN "false"
       ELSE IF a.run_lazily # b.run_lazily THEN "false"
       ELSE IF Len(a.connections) # Len(b.connections) THEN "false"
       ELSE IF a.connections # b.connections THEN "false"
       ELSE IF ~c.merge_userdata /\ (a.userdata_params \/ b.userdata_params) THEN "false"
       ELSE IF ~optimized(a) THEN "true"
       ELSE IF ~equivalent_symbols(a.instsymbols, b.instsymbols) THEN "false"
       ELSE IF a.instops # b.instops THEN "false"
       ELSE IF a.instargs # b.instargs THEN "false"
       ELSE IF \/ a.firstparam # b.firstparam \/ a.lastparam # b.lastparam
               \/ a.maincodebegin # b.maincodebegin
               \/ a.maincodeend # b.maincodeend
               \/ a.Psym # b.Psym \/ a.Nsym # b.Nsym
       THEN "false"
       ELSE "true"

\* what a call of mergeable can end in: a comparison that is not defined can
\* return either answer or end the process
mergeable_outcomes(a, b, c) ==
    IF mergeable_result(a, b, c) = Undefined THEN {"true", "false", "fatal"}
    ELSE {mergeable_result(a, b, c)}

\* mergeable can return true
mergeable(a, b, c) == "true" \in mergeable_outcomes(a, b, c)

\* ------------------------------------------------------------ the group
\* Inputs: ParamValues and hints given to parameters()
PV(nm, ty, d) == [name |-> nm, type |-> ty, data |-> d]
Hint(ip, ia) == [interpolated |-> ip, interactive |-> ia]
Hints == {Hint(FALSE, FALSE), Hint(TRUE, FALSE), Hint(FALSE, TRUE)}

AllValues ==
    { PV("Kd", TypeFloat, <<8>>), PV("Kd", TypeFloat, <<3>>),
      PV("arr", TypeOf("float", 1, 2), <<1, 2>>),
      PV("arr", TypeOf("float", 1, 2), <<1, 3>>),
      PV("arr", TypeOf("float", 1, 1), <<5>>),
      PV("label", TypeString, << <<120, 34>> >>),
      PV("Kd", TypeInt, <<3>>), PV("Kd", TypeInt, <<16777217>>),
      PV("Kd", TypeString, << <<97>> >>),
      PV("tint", TypeFloat, <<1>>), PV("tint", TypeFloat, <<2>>),
      PV("arr", TypeOf("float", 1, 3), <<1, 2, 4>>),
      PV("idx", TypeInt, <<0>>), PV("idx", TypeInt, <<7>>),
      PV("label", TypeString, << <<97>> >>),
      PV("Ci", TypeFloat, <<1>>), PV("st", TypeFloat, <<1>>),
      PV("bogus", TypeFloat, <<1>>), PV("", TypeFloat, <<1>>) }

LayerNames == <<"a", "b", "c", "d">>
AllParamNames == {MatteSymbols[k].name : k \in 1 .. 9}

\* what the last step did, for the properties to refer to
NoLast == [op |-> "none", why |-> "", diag |-> "none", fatal |-> "none",
           again |-> FALSE, kept |-> TRUE,
           p |-> PV("", TypeFloat, <<>>), hint |-> Hint(FALSE, FALSE), text |-> <<>>]

Idle == [on |-> FALSE]

nlayers == Len(m_layers)

\* ShadingSystemImpl::Shader: a new instance of master m is given the pending
\* parameter list
Shader(m, lazy, params) ==
    /\ pc = "idle" /\ ~m_optimized /\ nlayers < MaxLayers
    /\ m_layers' = Append(m_layers,
                          parameters(NewInstance(m, LayerNames[nlayers + 1], lazy),
                                     params, cfg.relaxed))
    /\ last' = NoLast
    /\ UNCHANGED <<m_optimized, pc, cfg, nbind, nconn, ncopy, cg, gen,
                   stat, arr, dual, dict, ll>>

\* The same call, its loop taken one entry at a time: pc = "binding" is the
\* position inside the loop of parameters(), after the seeding
ShaderBegin(m, lazy) ==
    /\ pc = "idle" /\ ~m_optimized /\ nlayers < MaxLayers
    /\ m_layers' = Append(m_layers,
                          parameters_seed(NewInstance(m, LayerNames[nlayers + 1], lazy)))
    /\ pc' = "binding"
    /\ last' = NoLast
    /\ UNCHANGED <<m_optimized, cfg, nbind, nconn, ncopy, cg, gen,
                   stat, arr, dual, dict, ll>>

ParametersEntry(p, h) ==
    /\ pc = "binding" /\ nbind < MaxBind
    /\ LET r == parameters_entry(m_layers[nlayers], p, h, cfg.relaxed)
       IN /\ m_layers' = [m_layers EXCEPT ![nlayers] = r.inst]
          /\ last' = [NoLast EXCEPT !.op = "entry", !.why = r.why, !.diag = r.diag,
                                    !.p = p, !.hint = h,
                                    !.kept = (r.inst = m_layers[nlayers])]
    /\ nbind' = nbind + 1
    /\ UNCHANGED <<m_optimized, pc, cfg, nconn, ncopy, cg, gen,
                   stat, arr, dual, dict, ll>>

ParametersEnd ==
    /\ pc = "binding"
    /\ pc' = "idle"
    /\ last' = NoLast
    /\ UNCHANGED <<m_layers, m_optimized, cfg, nbind, nconn, ncopy, cg, gen,
                   stat, arr, dual, dict, ll>>

\* ShadingSystemImpl::ConnectShaders accepts the connection: the source is an
\* earlier layer, both parameters exist, the types are assignable and the
\* destination is not connected yet
can_connect(layers, src, sp, dst, dp) ==
    /\ src \in 1 .. Len(layers) /\ dst \in 1 .. Len(layers) /\ src < dst
    /\ sp \in ParamRange(layers[src]) /\ dp \in ParamRange(layers[dst])
    /\ equivalent_type(mastersymbol(layers[dst], dp).type,
                       mastersymbol(layers[src], sp).type)
    /\ layers[dst].instoverrides[dp + 1].valuesource # "Connected"

\* ShadingSystemImpl::ConnectShaders: the connection is added to the
\* destination, whose value source becomes Connected, and the source is
\* marked connected_down
connect_shaders(layers, src, sp, dst, dp) ==
    LET st == mastersymbol(layers[src], sp).type
        dt == mastersymbol(layers[dst], dp).type
        added == add_connection(layers[dst], src - 1,
                                ConnectedParam(sp, st), ConnectedParam(dp, dt)).inst
    IN [layers EXCEPT
          ![dst] = [added EXCEPT !.instoverrides[dp + 1].valuesource = "Connected"],
          ![src] = [@ EXCEPT !.instoverrides[sp + 1].connected_down = TRUE]]

ConnectShaders(src, sp, dst, dp) ==
    /\ pc = "idle" /\ ~m_optimized /\ nconn < MaxConn
    /\ can_connect(m_layers, src, sp, dst, dp)
    /\ m_layers' = connect_shaders(m_layers, src, sp, dst, dp)
    /\ nconn' = nconn + 1
    /\ last' = NoLast
    /\ UNCHANGED <<m_optimized, pc, cfg, nbind, ncopy, cg, gen,
                   stat, arr, dual, dict, ll>>

\* optimization of the group specializes every layer
OptimizeGroup ==
    /\ pc = "idle" /\ ~m_optimized /\ nlayers > 0
    /\ m_layers' = [k \in 1 .. nlayers |->
                       copy_code_from_master(m_layers[k], cfg.routputs).inst]
    /\ m_optimized' = TRUE
    /\ last' = NoLast
    /\ UNCHANGED <<pc, cfg, nbind, nconn, ncopy, cg, gen,
                   stat, arr, dual, dict, ll>>

\* copy_code_from_master called on one instance, specialized or not
Specialize(l) ==
    /\ pc = "idle" /\ ncopy < MaxCopy
    /\ LET r == copy_code_from_master(m_layers[l], cfg.routputs)
       IN /\ m_layers' = [m_layers EXCEPT ![l] = r.inst]
          /\ pc' = IF r.fatal = "none" THEN "idle" ELSE "aborted"
          /\ last' = [NoLast EXCEPT !.op = "copy", !.fatal = r.fatal,
                                    !.again = ncopy > 0,
                                    !.kept = (r.inst = m_layers[l])]
    /\ ncopy' = ncopy + 1
    /\ UNCHANGED <<m_optimized, cfg, nbind, nconn, cg, gen,
                   stat, arr, dual, dict, ll>>

\* ----------------------------------------------------------- serialize
\* The text is a sequence of lines, a line a sequence of tokens: a word, a
\* number (its decimal digits) or a quoted string (its characters).
Word(w) == [k |-> "word", w |-> w, n |-> <<>>]
Number(ds) == [k |-> "number", w |-> "", n |-> ds]
Quoted(cs) == [k |-> "quoted", w |-> "", n |-> cs]
IsWord(t, w) == t.k = "word" /\ t.w = w

\* operator<< of an int: its decimal digits
RECURSIVE Digits(_)
Digits(v) == IF v < 10 THEN <<v>> ELSE Append(Digits(v \div 10), v % 10)

RECURSIVE NumberOf(_)
NumberOf(ds) ==
    IF Len(ds) = 0 THEN 0
    ELSE 10 * NumberOf(SubSeq(ds, 1, Len(ds) - 1)) + ds[Len(ds)]

RECURSIVE Pow10(_)
Pow10(n) == IF n = 0 THEN 1 ELSE 10 * Pow10(n - 1)

\* the digits of v rounded to prec significant digits
SigDigits(v, prec) ==
    LET d == Len(Digits(v))
    IN IF d <= prec THEN Digits(v) ELSE Digits(RoundTo(v, Pow10(d - prec)))

\* operator<< of a float with the default precision of a stream (mutant: the
\* precision is not set)
FormatFloatDefault(v) == SigDigits(v, 6)

\* operator<< of a float after out.precision(9) (line 879)
FormatFloat(v) == SigDigits(v, 9)

\* Strutil::escape_chars: a quote, a backslash and a newline are written
\* after a backslash
RECURSIVE escape_chars(_)
escape_chars(str) ==
    IF Len(str) = 0 THEN <<>>
    ELSE (IF Head(str) = 34 THEN <<92, 34>>
          ELSE IF Head(str) = 92 THEN <<92, 92>>
          ELSE IF Head(str) = 10 THEN <<92, 110>>
          ELSE <<Head(str)>>) \o escape_chars(Tail(str))

\* Strutil::unescape_chars
RECURSIVE unescape_chars(_)
unescape_chars(str) ==
    IF Len(str) = 0 THEN <<>>
    ELSE IF Head(str) = 92 /\ Len(str) > 1
    THEN <<(IF str[2] = 110 THEN 10 ELSE str[2])>> \o unescape_chars(Tail(Tail(str)))
    ELSE <<Head(str)>> \o unescape_chars(Tail(str))

\* operator<< of a TypeDesc
TypeName(t) == IF t.agg = 3 THEN "color" ELSE t.base
TypeText(t) ==
    <<Word(TypeName(t))>>
      \o (IF t.arraylen > 0 THEN <<Word("["), Number(Digits(t.arraylen)), Word("]")>>
          ELSE IF t.arraylen < 0 THEN <<Word("["), Word("]")>>
          ELSE <<>>)

\* one value of a pool as it is written (lines 909-922)
ValueText(t, v) ==
    IF t.base = "int" THEN Number(Digits(v))
    ELSE IF t.base = "float" THEN Number(FormatFloat(v))
    ELSE Quoted(escape_chars(v))

\* the param line of parameter p of inst, if it has one (lines 884-933)
ParamLines(inst, p) ==
    LET dstsyms_exist == Len(inst.instsymbols) > 0
        s == IF dstsyms_exist THEN symbol(inst, p) ELSE mastersymbol(inst, p)
        src == IF dstsyms_exist THEN s ELSE inst.instoverrides[p + 1]
        special == is_unsized_array(s.type) /\ ~dstsyms_exist
        type == IF special THEN [s.type EXCEPT !.arraylen = src.arraylen] ELSE s.type
        offset == IF special THEN src.dataoffset ELSE s.dataoffset
        nvals == numelements(type) * type.agg
        vals == ReadPool(inst[PoolName(type)], offset, nvals)
    IN IF s.symtype \in {"param", "oparam"} /\ src.valuesource = "Instance"
       THEN << <<Word("param")>> \o TypeText(type) \o <<Word(s.name)>>
                 \o [k \in 1 .. nvals |-> ValueText(type, vals[k])]
                 \o (IF src.interpolated THEN <<Word("[[int interpolated=1]]")>> ELSE <<>>)
                 \o (IF src.interactive THEN <<Word("[[int interactive=1]]")>> ELSE <<>>)
                 \o <<Word(";")>> >>
       ELSE <<>>

RECURSIVE ParamLinesFrom(_, _)
ParamLinesFrom(inst, p) ==
    IF p >= inst.lastparam THEN <<>>
    ELSE ParamLines(inst, p) \o ParamLinesFrom(inst, p + 1)

\* the connect line of a connection of inst (lines 936-957)
ConnectLine(layers, inst, con) ==
    LET srclayer == layers[con.srclayer + 1]
        srcparam == IF Len(srclayer.instsymbols) > 0
                    THEN symbol(srclayer, con.src.param).name
                    ELSE mastersymbol(srclayer, con.src.param).name
        dstparam == IF Len(inst.instsymbols) > 0
                    THEN symbol(inst, con.dst.param).name
                    ELSE mastersymbol(inst, con.dst.param).name
    IN <<Word("connect"), Word(srclayer.layername), Word("."), Word(srcparam),
         Word(inst.layername), Word("."), Word(dstparam), Word(";")>>

\* the lines of one layer: its params, the shader, its connections
LayerLines(layers, inst) ==
    ParamLinesFrom(inst, 0)
      \o << <<Word("shader"), Word(inst.master), Word(inst.layername), Word(";")>> >>
      \o [c \in 1 .. Len(inst.connections) |-> ConnectLine(layers, inst, inst.connections[c])]

RECURSIVE serialize_from(_, _)
serialize_from(layers, i) ==
    IF i > Len(layers) THEN <<>>
    ELSE LayerLines(layers, layers[i]) \o serialize_from(layers, i + 1)

\* ShaderGroup::serialize (lines 874-960)
serialize(layers) == serialize_from(layers, 1)

\* Reading the text back: ShaderGroupBegin given the serialized text.
\* a param line: type, name, values, hints
ParseParam(line) ==
    LET isarray == Len(line) > 3 /\ IsWord(line[3], "[")
        sized == isarray /\ line[4].k = "number"
        namepos == IF sized THEN 6 ELSE IF isarray THEN 5 ELSE 3
        tname == line[2].w
        base == IF tname = "color" THEN "float" ELSE tname
        valpos == {k \in namepos + 1 .. Len(line) : line[k].k # "word"}
        vals == [k \in 1 .. Cardinality(valpos) |->
                    LET t == line[namepos + k]
                    IN IF base = "int" THEN NumberOf(t.n)
                       ELSE IF base = "float" THEN FloatOfInt(NumberOf(t.n))
                       ELSE unescape_chars(t.n)]
    IN << PV(line[namepos].w,
             TypeOf(base, IF tname = "color" THEN 3 ELSE 1,
                    IF sized THEN NumberOf(line[4].n) ELSE IF isarray THEN -1 ELSE 0),
             vals),
          Hint(\E k \in 1 .. Len(line) : IsWord(line[k], "[[int interpolated=1]]"),
               \E k \in 1 .. Len(line) : IsWord(line[k], "[[int interactive=1]]")) >>

\* ShaderGroup::find_layer: the loop runs from the last layer down, so of
\* several layers of one name the last is found; 0 when there is none
find_layer(layers, name) ==
    LET found == {k \in 1 .. Len(layers) : layers[k].layername = name}
    IN IF found = {} THEN 0 ELSE CHOOSE k \in found : \A j \in found : k >= j

\* the group after line k and the ones that follow; pending holds the values
\* of the param lines since the last shader line
RECURSIVE rebuild_from(_, _, _, _)
rebuild_from(text, k, layers, pending) ==
    IF k > Len(text) THEN layers
    ELSE LET line == text[k]
         IN IF IsWord(line[1], "param")
            THEN rebuild_from(text, k + 1, layers, Append(pending, ParseParam(line)))
            ELSE IF IsWord(line[1], "shader")
            THEN rebuild_from(text, k + 1,
                              Append(layers,
                                     parameters(NewInstance(line[2].w, line[3].w, TRUE),
                                                pending, FALSE)),
                              <<>>)
            ELSE LET src == find_layer(layers, line[2].w)
                     dst == find_layer(layers, line[5].w)
                     sp == IF src = 0 THEN -1 ELSE findparam(layers[src], line[4].w)
                     dp == IF dst = 0 THEN -1 ELSE findparam(layers[dst], line[7].w)
                 IN rebuild_from(text, k + 1,
                                 IF src > 0 /\ dst > 0 /\ can_connect(layers, src, sp, dst, dp)
                                 THEN connect_shaders(layers, src, sp, dst, dp)
                                 ELSE layers,
                                 pending)

rebuild(text) == rebuild_from(text, 1, <<>>, <<>>)

\* ShaderGroup::serialize called on the group
Serialize ==
    /\ pc = "idle" /\ nlayers > 0
    /\ last' = [NoLast EXCEPT !.op = "serialize", !.text = serialize(m_layers)]
    /\ UNCHANGED <<m_layers, m_optimized, pc, cfg, nbind, nconn, ncopy, cg, gen,
                   stat, arr, dual, dict, ll>>

\* the options of the shading system, the parameters the group uses, and the
\* renderer outputs
Config(relaxed, mu, used, routputs) ==
    [relaxed |-> relaxed, merge_userdata |-> mu, used |-> used, routputs |-> routputs]

GroupConfigs ==
    { Config(FALSE, TRUE, AllParamNames, {}),
      Config(FALSE, FALSE, AllParamNames, {}),
      Config(FALSE, TRUE, AllParamNames \ {"arr"}, {}),
      Config(FALSE, TRUE, AllParamNames, {<<"b", "out">>}) }

\* the layers a group is made of: master, run_lazily, parameter list
NoHint == Hint(FALSE, FALSE)
Kd8 == PV("Kd", TypeFloat, <<8>>)
Kd3 == PV("Kd", TypeFloat, <<3>>)
KdBig == PV("Kd", TypeFloat, <<1073741824>>)
Arr(d) == PV("arr", TypeOf("float", 1, Len(d)), d)
Label(str) == PV("label", TypeString, <<str>>)

GroupLayers ==
    { <<"null", TRUE, <<>> >>,
      <<"matte", TRUE, <<>> >>,
      <<"matte", FALSE, <<>> >>,
      <<"matte", TRUE, << <<Kd8, NoHint>> >> >>,
      <<"matte", FALSE, << <<Kd8, NoHint>> >> >>,
      <<"matte", TRUE, << <<Kd3, NoHint>> >> >>,
      <<"matte", TRUE, << <<Kd3, Hint(TRUE, FALSE)>>, <<Kd8, NoHint>> >> >>,
      <<"matte", TRUE, << <<Kd8, Hint(TRUE, FALSE)>> >> >>,
      <<"matte", TRUE, << <<Kd8, Hint(FALSE, TRUE)>> >> >>,
      <<"matte", TRUE, << <<Arr(<<1, 2>>), NoHint>> >> >>,
      <<"matte", TRUE, << <<Arr(<<1, 3>>), NoHint>> >> >>,
      <<"matte", TRUE, << <<Arr(<<5>>), NoHint>> >> >>,
      <<"matte", TRUE, << <<Label(<<120, 34, 92>>), NoHint>>, <<KdBig, NoHint>> >> >> }

InitCommon ==
    /\ m_layers = <<>> /\ m_optimized = FALSE /\ pc = "idle" /\ last = NoLast
    /\ nbind = 0 /\ nconn = 0 /\ ncopy = 0
    /\ cg = Idle /\ gen = Idle
    /\ stat = Idle /\ arr = Idle /\ dual = Idle /\ dict = Idle /\ ll = Idle

\* one instance: every kind of value, strict and relaxed type checking
InitInst ==
    /\ InitCommon
    /\ cfg \in {Config(r, TRUE, AllParamNames, {}) : r \in BOOLEAN}

NextInst ==
    \/ \E m \in Masters : nlayers = 0 /\ ShaderBegin(m, TRUE)
    \/ \E p \in AllValues, h \in Hints : ParametersEntry(p, h)
    \/ ParametersEnd
    \/ nlayers = 1 /\ Specialize(1)

SpecInst == InitInst /\ [][NextInst]_vars

\* a group of layers: binding, connecting, optimizing
InitGroup ==
    /\ InitCommon
    /\ cfg \in GroupConfigs

NextGroup ==
    \/ \E l \in GroupLayers : Shader(l[1], l[2], l[3])
    \/ \E src, dst \in 1 .. nlayers, c \in {<<7, 0>>, <<8, 2>>} :
          ConnectShaders(src, c[1], dst, c[2])
    \/ OptimizeGroup
    \/ Serialize

SpecGroup == InitGroup /\ [][NextGroup]_vars

\* ------------------------------------------------- properties of instances
\* the symbol that describes parameter i of inst: its own once specialized,
\* the master's before
cursymbol(inst, i) == IF optimized(inst) THEN symbol(inst, i) ELSE mastersymbol(inst, i)

\* where the value of parameter i comes from, and its flags
cursource(inst, i) ==
    IF Len(inst.instoverrides) > 0 THEN inst.instoverrides[i + 1] ELSE cursymbol(inst, i)

\* the type parameter i has in inst: an array of indefinite length has the
\* length the instance gave it, or else the length of the master's default
EffectiveType(inst, i) ==
    LET t == cursymbol(inst, i).type
        ovlen == IF Len(inst.instoverrides) > 0 THEN inst.instoverrides[i + 1].arraylen
                 ELSE 0
    IN IF ~is_unsized_array(t) THEN t
       ELSE [t EXCEPT !.arraylen = IF ovlen # 0 THEN ovlen
                                   ELSE mastersymbol(inst, i).initializers]

\* the whole value stored for parameter i
StoredValue(inst, i) == param_storage(inst, i, basevalues(EffectiveType(inst, i)))

\* the master's whole default for parameter i
DefaultValue(m, i) ==
    LET sm == Master(m).symbols[i + 1]
    IN param_default_storage(m, i,
          basevalues(IF is_unsized_array(sm.type)
                     THEN [sm.type EXCEPT !.arraylen = sm.initializers] ELSE sm.type))

\* C1 (as the specification states it): two layers that mergeable() accepts
\* never differ in the stored value of a parameter that is used in the group
\* and takes its value from the instance or the default, before as well as
\* after specialization, whatever the type or array length.
C1_MergeableNeverDiffers ==
    pc = "idle" =>
      \A x, y \in 1 .. nlayers :
        mergeable(m_layers[x], m_layers[y], cfg) =>
          \A i \in ParamRange(m_layers[x]) :
            ( /\ cursymbol(m_layers[x], i).name \in cfg.used
              /\ ~is_closure_based(cursymbol(m_layers[x], i).type)
              /\ InstOrDefault(cursource(m_layers[x], i).valuesource)
              /\ InstOrDefault(cursource(m_layers[y], i).valuesource) )
            => StoredValue(m_layers[x], i) = StoredValue(m_layers[y], i)

\* inst has a used, non-closure, instance- or default-valued parameter that
\* is flagged interactive.  The flag the instance gave is in the override
\* record (lines 272-277) until specialization moves it to the instance's
\* symbol (line 502); the flag the master declares is in the master's symbol,
\* which is what the instance's symbol starts from (line 481).
InteractiveParam(inst) ==
    \E i \in ParamRange(inst) :
       /\ cursymbol(inst, i).name \in cfg.used
       /\ ~is_closure_based(cursymbol(inst, i).type)
       /\ \/ /\ InstOrDefault(cursource(inst, i).valuesource)
             /\ cursource(inst, i).interactive
          \/ /\ InstOrDefault(cursymbol(inst, i).valuesource)
             /\ cursymbol(inst, i).interactive

\* what stops an instance from being merged with any instance, itself
\* included: lines 610-611, 705-707, and the interactive flag that the value
\* loop (lines 660-676) finds in the instance's symbols once it is specialized
SelfDisqualified(inst) ==
    \/ inst.renderer_outputs
    \/ ~cfg.merge_userdata /\ inst.userdata_params
    \/ optimized(inst) /\ InteractiveParam(inst)

\* C2 (as the specification states it): mergeable(A, A) is true for every
\* instance the group can hold.
C2_Reflexive ==
    pc = "idle" => \A x \in 1 .. nlayers : mergeable(m_layers[x], m_layers[x], cfg)

\* C2 (amended): mergeable(A, A) is false when A is bound to a renderer
\* output, when A has userdata parameters and instances with userdata may not
\* be merged, and when A is specialized and one of its used, non-closure,
\* instance- or default-valued parameters is flagged interactive; it is true
\* when A is not bound to a renderer output, has no userdata parameters that
\* bar merging, and has no such parameter flagged interactive by the instance
\* or by the master, before or after specialization.
C2_ReflexiveUnlessDisqualified ==
    pc = "idle" =>
      \A x \in 1 .. nlayers :
        /\ SelfDisqualified(m_layers[x]) => ~mergeable(m_layers[x], m_layers[x], cfg)
        /\ (~SelfDisqualified(m_layers[x]) /\ ~InteractiveParam(m_layers[x]))
              => mergeable(m_layers[x], m_layers[x], cfg)

\* C2 witness: a specialized group with a layer that is mergeable with itself
\* though it holds an instance value, and a layer that nothing but a
\* parameter flagged interactive keeps from being mergeable with itself
C2_Witness ==
    /\ pc = "idle" /\ m_optimized
    /\ \E x, y \in 1 .. nlayers :
         /\ mergeable(m_layers[x], m_layers[x], cfg)
         /\ \E i \in ParamRange(m_layers[x]) :
               symbol(m_layers[x], i).valuesource = "Instance"
         /\ ~m_layers[y].renderer_outputs
         /\ ~(~cfg.merge_userdata /\ m_layers[y].userdata_params)
         /\ InteractiveParam(m_layers[y])
         /\ ~mergeable(m_layers[y], m_layers[y], cfg)

\* parameter i of inst was given a value, has no init ops, and what is stored
\* for it is the master's default
GivenDefault(inst, i) ==
    /\ mastersymbol(inst, i).name \in inst.given
    /\ ~mastersymbol(inst, i).has_init_ops
    /\ StoredValue(inst, i) = DefaultValue(inst.master, i)

\* layer x leaves Kd alone, layer y has been given nothing but Kd, in the end
\* un-hinted and equal to the default, and nothing else tells the two apart
KdUnsetAndKdDefault(x, y) ==
    /\ m_layers[x].master = "matte" /\ m_layers[y].master = "matte"
    /\ m_layers[x].given = {} /\ m_layers[y].given = {"Kd"}
    /\ StoredValue(m_layers[y], 0) = DefaultValue("matte", 0)
    /\ lockgeom(cursource(m_layers[y], 0))
    /\ m_layers[x].run_lazily = m_layers[y].run_lazily
    /\ m_layers[x].connections = m_layers[y].connections
    /\ ~m_layers[x].renderer_outputs /\ ~m_layers[y].renderer_outputs

\* C6 (as the specification states it): a parameter without init ops that was
\* given a value equal to the master's default has the value source Default,
\* not Instance, whatever the hints it was given with.
C6_DefaultWhateverHints ==
    \A x \in 1 .. nlayers : \A i \in ParamRange(m_layers[x]) :
       GivenDefault(m_layers[x], i) =>
          cursource(m_layers[x], i).valuesource # "Instance"

\* C6 (amended): a parameter that has no init ops, is not an array of
\* indefinite length, and was last given, without an interpolated or
\* interactive hint, a value equal to the master's default has the value
\* source Default, not Instance, even if it was given another value before;
\* and an instance that leaves Kd unset and one that sets Kd to its default in
\* this way are mergeable, before and after specialization.
C6_DefaultWhenLockgeom ==
    /\ \A x \in 1 .. nlayers : \A i \in ParamRange(m_layers[x]) :
          ( /\ GivenDefault(m_layers[x], i)
            /\ lockgeom(cursource(m_layers[x], i))
            /\ ~is_unsized_array(mastersymbol(m_layers[x], i).type) )
          => cursource(m_layers[x], i).valuesource # "Instance"
    /\ \A x, y \in 1 .. nlayers :
          KdUnsetAndKdDefault(x, y) =>
             /\ mergeable(m_layers[x], m_layers[y], cfg)
             /\ mergeable(m_layers[y], m_layers[x], cfg)

\* C6 witness: a specialized group in which one layer left Kd unset and the
\* other was given Kd equal to the default
C6_Witness ==
    /\ m_optimized
    /\ \E x, y \in 1 .. nlayers : KdUnsetAndKdDefault(x, y)

\* the entry parameters() has just taken, and the parameter it names
EntryTaken == last.op = "entry"
EntryIndex == findparam(m_layers[nlayers], last.p.name)
EntryBound == EntryTaken /\ last.why = "bound"

\* the entry names no parameter, a closure, a structure, or gives a value of
\* a type the parameter cannot take
EntryUnacceptable ==
    /\ EntryTaken /\ last.p.name # ""
    /\ \/ EntryIndex < 0
       \/ is_closure_based(mastersymbol(m_layers[nlayers], EntryIndex).type)
       \/ is_structure(mastersymbol(m_layers[nlayers], EntryIndex).type)
       \/ last.why = "type"

\* C7 (as the specification states it): an entry that cannot be accepted
\* emits a warning and changes neither the pools nor the overrides.
C7_RejectedWarns ==
    EntryUnacceptable => last.diag = "warning" /\ last.kept

\* C7 (amended): an entry that cannot be accepted changes neither the pools
\* nor the overrides and the entries after it are still taken; a closure
\* parameter, an unknown name and, with strict type checking, a value of an
\* incompatible type give a warning, an incompatible type with relaxed type
\* checking gives an error, and a structure parameter is skipped silently.
C7_RejectedLeavesInstance ==
    EntryUnacceptable =>
      /\ last.kept /\ last.why # "bound" /\ pc = "binding"
      /\ last.diag = IF last.why = "structure" THEN "none"
                     ELSE IF last.why = "type" /\ cfg.relaxed THEN "error"
                     ELSE "warning"

\* C7 witness: after a value was bound, an entry with a value of the wrong
\* type has been rejected
C7_Witness ==
    /\ EntryUnacceptable /\ last.why = "type"
    /\ m_layers[nlayers].given # {}

\* the entry has bound a value to a parameter that is an array of indefinite
\* length
EntryBoundUnsized ==
    /\ EntryBound
    /\ is_unsized_array(mastersymbol(m_layers[nlayers], EntryIndex).type)

\* C8: binding N base elements to a parameter that is an array of indefinite
\* length makes the pool of its base type exactly N elements longer, at its
\* end, and leaves the other pools alone; the override records the array
\* length and the offset of the new storage; the overrides and values of the
\* other parameters are unchanged; reading the parameter through
\* param_storage yields the supplied values.
C8_UnsizedBindAppends ==
    [][ (nbind' = nbind + 1 /\ EntryBoundUnsized') =>
          LET a == m_layers[nlayers]
              b == m_layers'[nlayers]
              i == findparam(a, last'.p.name)
              N == basevalues(last'.p.type)
              pn == PoolName(mastersymbol(a, i).type)
          IN /\ Len(b[pn]) = Len(a[pn]) + N
             /\ SubSeq(b[pn], 1, Len(a[pn])) = a[pn]
             /\ \A q \in {"iparams", "fparams", "sparams"} \ {pn} : b[q] = a[q]
             /\ b.instoverrides[i + 1].arraylen = N \div mastersymbol(a, i).type.agg
             /\ b.instoverrides[i + 1].dataoffset = Len(a[pn])
             /\ \A j \in ParamRange(a) \ {i} :
                   /\ b.instoverrides[j + 1] = a.instoverrides[j + 1]
                   /\ StoredValue(b, j) = StoredValue(a, j)
             /\ param_storage(b, i, N) = last'.p.data ]_vars

\* C8 witness: an array of three elements has been bound to the parameter
\* after an array of two elements was
C8_Witness ==
    /\ EntryBoundUnsized
    /\ Len(last.p.data) = 3
    /\ Len(m_layers[nlayers].fparams) = Len(Master("matte").fdefaults) + 5

\* C9 (as the specification states it): a second copy_code_from_master on an
\* instance fails fatally and leaves the instance as it was, whatever the
\* master.
C9_SecondCopyFatal ==
    (last.op = "copy" /\ last.again) => (last.fatal # "none" /\ last.kept)

\* the instance value of parameter i, if it has one, is the same in a and b:
\* type, values and hints
SameOverride(a, b, i) ==
    /\ (cursource(a, i).valuesource = "Instance") = (cursource(b, i).valuesource = "Instance")
    /\ cursource(a, i).valuesource = "Instance" =>
          /\ EffectiveType(a, i) = EffectiveType(b, i)
          /\ StoredValue(a, i) = StoredValue(b, i)
          /\ cursource(a, i).interpolated = cursource(b, i).interpolated
          /\ cursource(a, i).interactive = cursource(b, i).interactive

\* the connections of a group, by the names of the layers and parameters
ConnectionGraph(layers) ==
    { <<layers[layers[k].connections[c].srclayer + 1].layername,
        cursymbol(layers[layers[k].connections[c].srclayer + 1],
                  layers[k].connections[c].src.param).name,
        layers[k].layername,
        cursymbol(layers[k], layers[k].connections[c].dst.param).name>> :
      <<k, c>> \in {kc \in (1 .. Len(layers)) \X (1 .. MaxConn + 1) :
                       kc[2] <= Len(layers[kc[1]].connections)} }

\* C10: the group rebuilt from the text serialize() gives has the same layers
\* in the same order, the same instance values (name, type, values, hints)
\* and the same connection graph, whether the group was optimized or not.
C10_SerializeRoundTrip ==
    last.op = "serialize" =>
      LET back == rebuild(last.text)
      IN /\ Len(back) = nlayers
         /\ \A k \in 1 .. nlayers :
               /\ back[k].master = m_layers[k].master
               /\ back[k].layername = m_layers[k].layername
               /\ \A i \in ParamRange(m_layers[k]) : SameOverride(m_layers[k], back[k], i)
         /\ ConnectionGraph(back) = ConnectionGraph(m_layers)

\* C10 witness: an optimized group with a connection, an array of indefinite
\* length and a string with characters to escape has been serialized
C10_Witness ==
    /\ last.op = "serialize" /\ m_optimized
    /\ \E k \in 1 .. nlayers : Len(m_layers[k].connections) > 0
    /\ \E k \in 1 .. nlayers : "label" \in m_layers[k].given

\* ------------------------------------------------ calls of earlier layers
\* The layer being compiled: the value source of its symbols 0 .. 3, its
\* connections, and which of the earlier layers run lazily.
CgValueSource == <<"Connected", "Connected", "Connected", "Instance">>
CgConnections ==
    << [srclayer |-> 0, dst |-> 0], [srclayer |-> 1, dst |-> 1],
       [srclayer |-> 0, dst |-> 2], [srclayer |-> 2, dst |-> 2] >>
CgRunLazily(layer) == layer \in {0, 2}
CgArgs == {<<0>>, <<1>>, <<2>>, <<3>>, <<0, 2>>, <<2, 0>>}

\* Where a useparam op can stand.  Slot 0 is the init ops of a parameter;
\* the others are places of the main code, in code order: the path names the
\* if branches and loop bodies the place is nested in, and every place is a
\* basic block of its own.  An op is flagged in-conditional when its path is
\* not empty.
InitSlot == 0
CgSlots ==
    << [path |-> <<>>, bblock |-> 1],
       [path |-> <<1>>, bblock |-> 2],
       [path |-> <<1, 2>>, bblock |-> 3],
       [path |-> <<1>>, bblock |-> 4],
       [path |-> <<3>>, bblock |-> 5],
       [path |-> <<>>, bblock |-> 6],
       [path |-> <<4>>, bblock |-> 7] >>
MainSlots == 1 .. Len(CgSlots)
m_in_conditional(slot) == slot = InitSlot \/ CgSlots[slot].path # <<>>
m_bblockids(slot) == IF slot = InitSlot THEN 0 ELSE CgSlots[slot].bblock

\* one connection of the loop of llvm_run_connected_layers (lines 185-238)
\* (mutant: the layer is marked as run although the op is in a conditional)
run_connection_marks_always(st, con, symindex, slot, inmain, opt_useparam) ==
    LET L == con.srclayer
        s1 == [st EXCEPT !.already_run = @ \cup {L}]
        s2 == IF inmain THEN [s1 EXCEPT !.m_layers_already_run = @ \cup {L}] ELSE s1
        key == <<m_bblockids(slot), L>>
    IN IF con.dst # symindex THEN st
       ELSE IF ~CgRunLazily(L) THEN st
       ELSE IF L \in st.already_run THEN st
       ELSE IF inmain /\ L \in s1.m_layers_already_run THEN s1
       ELSE IF opt_useparam /\ inmain /\ key \in s2.m_call_layers_inserted THEN s2
       ELSE [s2 EXCEPT
               !.m_call_layers_inserted = IF opt_useparam /\ inmain THEN @ \cup {key} ELSE @,
               !.called = @ \cup {L}]

\* one connection of the loop of llvm_run_connected_layers (lines 185-238):
\* st holds m_layers_already_run, m_call_layers_inserted, the set already_run
\* of this op and the layers llvm_call_layer was emitted for at this op
run_connection(st, con, symindex, slot, inmain, opt_useparam) ==
    LET L == con.srclayer
        s1 == [st EXCEPT !.already_run = @ \cup {L}]
        s2 == IF inmain /\ ~m_in_conditional(slot)
              THEN [s1 EXCEPT !.m_layers_already_run = @ \cup {L}] ELSE s1
        key == <<m_bblockids(slot), L>>
    IN IF con.dst # symindex THEN st
       ELSE IF ~CgRunLazily(L) THEN st
       ELSE IF L \in st.already_run THEN st
       ELSE IF inmain /\ L \in s1.m_layers_already_run THEN s1
       ELSE IF opt_useparam /\ inmain /\ key \in s2.m_call_layers_inserted THEN s2
       ELSE [s2 EXCEPT
               !.m_call_layers_inserted = IF opt_useparam /\ inmain THEN @ \cup {key} ELSE @,
               !.called = @ \cup {L}]

RECURSIVE run_connections_from(_, _, _, _, _, _)
run_connections_from(st, c, symindex, slot, inmain, opt_useparam) ==
    IF c > Len(CgConnections) THEN st
    ELSE run_connections_from(
             run_connection(st, CgConnections[c], symindex, slot, inmain, opt_useparam),
             c + 1, symindex, slot, inmain, opt_useparam)

\* BackendLLVM::llvm_run_connected_layers (lines 176-239)
llvm_run_connected_layers(st, symindex, slot, inmain, opt_useparam) ==
    IF CgValueSource[symindex + 1] # "Connected" THEN st
    ELSE run_connections_from(st, 1, symindex, slot, inmain, opt_useparam)

RECURSIVE useparam_args_from(_, _, _, _, _, _)
useparam_args_from(st, args, i, slot, inmain, opt_useparam) ==
    IF i > Len(args) THEN st
    ELSE useparam_args_from(
             llvm_run_connected_layers(st, args[i], slot, inmain, opt_useparam),
             args, i + 1, slot, inmain, opt_useparam)

\* llvm_gen_useparam (lines 255-283) for the op opnum with the arguments args
llvm_gen_useparam(c, slot, args) ==
    LET inmain == c.opnum >= c.maincodebegin /\ c.opnum < MaxOps
        st == useparam_args_from(
                  [m_layers_already_run |-> c.m_layers_already_run,
                   m_call_layers_inserted |-> c.m_call_layers_inserted,
                   already_run |-> {}, called |-> {}],
                  args, 1, slot, inmain, c.opt_useparam)
    IN [c EXCEPT !.m_layers_already_run = st.m_layers_already_run,
                 !.m_call_layers_inserted = st.m_call_layers_inserted,
                 !.calls = @ \cup {<<slot, L>> : L \in st.called},
                 !.op = [slot |-> slot, args |-> args, called |-> st.called],
                 !.opnum = @ + 1, !.slot = slot]

\* the generator of the next op of the layer is run: an init op of a
\* parameter before the main code begins, then the ops of the main code in
\* code order
GenUseparam(slot, args) ==
    /\ cg.on /\ cg.opnum < MaxOps
    /\ IF cg.opnum < cg.maincodebegin THEN slot = InitSlot
       ELSE slot \in MainSlots /\ slot >= cg.slot
    /\ cg' = llvm_gen_useparam(cg, slot, args)
    /\ UNCHANGED <<m_layers, m_optimized, pc, cfg, last, nbind, nconn, ncopy, gen,
                   stat, arr, dual, dict, ll>>

InitLayers ==
    /\ m_layers = <<>> /\ m_optimized = FALSE /\ pc = "idle" /\ last = NoLast
    /\ nbind = 0 /\ nconn = 0 /\ ncopy = 0 /\ gen = Idle
    /\ stat = Idle /\ arr = Idle /\ dual = Idle /\ dict = Idle /\ ll = Idle
    /\ cfg = Config(FALSE, TRUE, AllParamNames, {})
    /\ cg \in [on : {TRUE}, opt_useparam : BOOLEAN, maincodebegin : 0 .. 1,
               opnum : {0}, slot : {InitSlot},
               m_layers_already_run : {{}}, m_call_layers_inserted : {{}},
               calls : {{}},
               op : {[slot |-> InitSlot, args |-> <<>>, called |-> {}]}]

\* the init ops of a parameter are generated again while the main code is
\* being generated: the op has an op number before maincodebegin, whatever
\* the number of ops generated so far
GenInitUseparam(args) ==
    /\ cg.on /\ cg.maincodebegin > 0 /\ cg.opnum >= cg.maincodebegin
    /\ cg' = [llvm_gen_useparam([cg EXCEPT !.opnum = 0], InitSlot, args)
                EXCEPT !.opnum = cg.opnum, !.slot = cg.slot]
    /\ UNCHANGED <<m_layers, m_optimized, pc, cfg, last, nbind, nconn, ncopy, gen,
                   stat, arr, dual, dict, ll>>

NextLayers ==
    \/ \E slot \in {InitSlot} \cup MainSlots, args \in CgArgs : GenUseparam(slot, args)
    \/ \E args \in CgArgs : GenInitUseparam(args)

SpecLayers == InitLayers /\ [][NextLayers]_vars

\* the lazily run layers connected to the symbols args names
NeededLayers(args) ==
    { CgConnections[c].srclayer : c \in
        {c \in 1 .. Len(CgConnections) :
            /\ \E i \in 1 .. Len(args) : CgConnections[c].dst = args[i]
                                         /\ CgValueSource[args[i] + 1] = "Connected"
            /\ CgRunLazily(CgConnections[c].srclayer)} }

IsPrefix(a, b) == Len(a) <= Len(b) /\ SubSeq(b, 1, Len(a)) = a

\* a call emitted at an op of the main code at place e is executed on every
\* path that reaches an op at the same or a later place o
ExecutesBefore(e, o) ==
    e \in MainSlots /\ o \in MainSlots /\ e <= o /\ IsPrefix(CgSlots[e].path, CgSlots[o].path)

\* C3: for the useparam op just generated, every lazily run layer connected
\* to one of its Connected symbols is called at this op, or was called at an
\* earlier op of the main code that executes on every path reaching this op.
C3_NeededLayerIsCalled ==
    (cg.on /\ cg.opnum > 0) =>
       \A L \in NeededLayers(cg.op.args) :
          \/ L \in cg.op.called
          \/ \E call \in cg.calls : call[2] = L /\ ExecutesBefore(call[1], cg.op.slot)

\* C3 witness: an op after the if needs a layer that was called inside a
\* branch of the if only, and calls it; it also needs a layer that was called
\* before the if, and does not call it again
C3_Witness ==
    /\ cg.on /\ cg.op.slot = 6
    /\ 2 \in cg.op.called /\ <<2, 2>> \in cg.calls
    /\ 0 \in NeededLayers(cg.op.args) /\ 0 \notin cg.op.called /\ <<1, 0>> \in cg.calls

\* C21: the set of layers known to have run unconditionally changes only at
\* an op of the main code that is not in a conditional region; a layer that
\* enters it is called at that op or was called at an earlier op that
\* executes on every path to it; an init op calls every layer it needs
\* whatever the set holds; and an unconditional op of the main code calls
\* every needed layer the set does not hold yet, so a layer called only in a
\* conditional so far is called again.
C21_UnconditionalSetOnlyFromMainCode ==
    [][ cg.on =>
        LET o == cg'.op
            added == cg'.m_layers_already_run \ cg.m_layers_already_run
        IN /\ (o.slot = InitSlot \/ m_in_conditional(o.slot))
                => cg'.m_layers_already_run = cg.m_layers_already_run
           /\ o.slot = InitSlot => o.called = NeededLayers(o.args)
           /\ \A L \in added :
                 \/ L \in o.called
                 \/ \E call \in cg.calls : call[2] = L /\ ExecutesBefore(call[1], o.slot)
           /\ (o.slot \in MainSlots /\ ~m_in_conditional(o.slot))
                => \A L \in NeededLayers(o.args) \ cg.m_layers_already_run :
                      L \in o.called /\ L \in added
      ]_vars

\* C21 witness: layer 2 was called in a branch of an if and layer 0 before
\* the if; an init op generated afterwards has called layer 0 again, and
\* only layer 0 is in the set
C21_Witness ==
    /\ cg.on /\ cg.op.slot = InitSlot /\ cg.opnum >= 2
    /\ 0 \in cg.op.called /\ cg.m_layers_already_run = {0}
    /\ \E call \in cg.calls : call[2] = 2 /\ call[1] \in MainSlots /\ m_in_conditional(call[1])

\* ------------------------------------------------------- op generators
\* An op: its kind, two numbers the kind gives a meaning to, and the op
\* ranges nested in it (the branches of an if, the sections of a loop, the
\* body of an inlined function).
\* kw: keyword arguments of a closure call that the closure does not have
\* opts: the optional (name, value) pairs of a texture or noise op, each the
\* name, the type of the value and whether the value is a constant
\* opname, typed, name, no_noise: see llvm_gen_noise
Op(kind, a, b, subs) ==
    [kind |-> kind, a |-> a, b |-> b, kw |-> 0, subs |-> subs, opts |-> <<>>,
     opname |-> kind, typed |-> FALSE, name |-> "", no_noise |-> FALSE,
     constant |-> TRUE, format |-> <<>>, past |-> <<>>]
KeywordOp(op, kw) == [op EXCEPT !.kw = kw]
Option(name, valtype, constant) ==
    [name |-> name, valtype |-> valtype, constant |-> constant]
TextureOp(opts) == [Op("texture", 0, 0, <<>>) EXCEPT !.opts = opts]
\* a printf op: whether its format is a constant, the characters of the
\* format, the bytes that the memory holds after the format's terminator up
\* to the next zero byte, and the number of arguments after the format
PrintfOp(constant, format, past, nargs) ==
    [Op("printf", 0, nargs, <<>>) EXCEPT !.constant = constant, !.format = format,
                                         !.past = past]
\* a noise op: the opcode, whether its first argument is a string (the noise
\* type), the type name ("" when it is not a constant), the shading system's
\* no_noise option, and the optional pairs
NoiseOp(opname, typed, name, no_noise, opts) ==
    [Op("noise", 0, 0, <<>>) EXCEPT !.opname = opname, !.typed = typed, !.name = name,
                                    !.no_noise = no_noise, !.opts = opts]

\* what a generator returns and the diagnostics it gives
Result(ok, errors, warnings) == [ok |-> ok, errors |-> errors, warnings |-> warnings]

\* the (name, type) tests of the loop of llvm_gen_texture_options (lines
\* 2670-2782) one of which a pair passes
texture_option_accepted(p) ==
    \/ /\ p.name \in {"width", "swidth", "twidth", "rwidth", "blur", "sblur", "tblur",
                      "rblur", "fill", "time"}
       /\ p.valtype \in {"float", "int"}
    \/ /\ p.name \in {"wrap", "swrap", "twrap", "rwrap", "interp", "errormessage",
                      "colorspace"}
       /\ p.valtype = "string"
    \/ p.name = "firstchannel" /\ p.valtype = "int"
    \/ p.name = "subimage" /\ p.valtype \in {"int", "string"}
    \/ p.name \in {"alpha", "missingalpha"} /\ p.valtype = "float"
    \/ p.name = "missingcolor" /\ p.valtype \in {"color", "point", "vector", "normal"}

\* one pair of the loop gives an error: a colorspace whose value is not a
\* constant (lines 2759-2770), or a pair no test accepts (lines 2783-2785);
\* a pair with an empty name is skipped (line 2595)
texture_option_error(p) ==
    /\ p.name # ""
    /\ \/ p.name = "colorspace" /\ p.valtype = "string" /\ ~p.constant
       \/ ~texture_option_accepted(p)

\* llvm_gen_texture_options (lines 2568-2802): the errors of the pairs; the
\* options are returned all the same
llvm_gen_texture_options(op) ==
    Result(TRUE, Cardinality({k \in 1 .. Len(op.opts) : texture_option_error(op.opts[k])}), 0)

\* llvm_gen_texture (lines 2806-2870)
llvm_gen_texture(op) == Result(TRUE, llvm_gen_texture_options(op).errors, 0)

\* llvm_gen_trace_options (lines 3001-3035): a known options, b unknown ones
llvm_gen_trace_options(op) == Result(TRUE, op.b, 0)

\* llvm_gen_trace (lines 3039-3067)
llvm_gen_trace(op) == Result(TRUE, llvm_gen_trace_options(op).errors, 0)

\* one pair of the loop of llvm_gen_noise_options gives an error (lines
\* 3115-3139); a pair with an empty name is skipped
noise_option_error(p) ==
    /\ p.name # ""
    /\ ~ \/ p.name \in {"anisotropic", "do_filter"} /\ p.valtype = "int"
         \/ p.name = "direction" /\ p.valtype \in {"color", "point", "vector", "normal"}
         \/ p.name \in {"bandwidth", "impulses"} /\ p.valtype \in {"float", "int"}

\* llvm_gen_noise_options (lines 3096-3143)
llvm_gen_noise_options(op) ==
    Result(TRUE, Cardinality({k \in 1 .. Len(op.opts) : noise_option_error(op.opts[k])}), 0)

\* llvm_gen_noise, lines 3155-3170 and 3194: the noise type; the opcode's own
\* name when the first argument is not a string (old-style noise, pnoise)
periodic(op) == op.opname \in {"pnoise", "psnoise"}
noise_name(op) == IF op.typed THEN op.name ELSE op.opname

\* lines 3203-3236: the type is one the generator knows
noise_known(op) ==
    \/ noise_name(op) \in {"", "perlin", "snoise", "psnoise", "uperlin", "noise", "pnoise",
                           "cell", "cellnoise", "hash", "hashnoise", "gabor"}
    \/ noise_name(op) \in {"simplex", "usimplex"} /\ ~periodic(op)

\* lines 3203-3261: the options are generated only for a type that is not
\* a constant and for gabor, and not when no_noise replaces the noise
pass_options(op) == noise_name(op) \in {"", "gabor"} /\ ~op.no_noise

\* llvm_gen_noise (lines 3155-3330): an unknown type is an error and fails
\* before the options are looked at
llvm_gen_noise(op) ==
    IF ~noise_known(op) THEN Result(FALSE, 1, 0)
    ELSE IF pass_options(op) THEN Result(TRUE, llvm_gen_noise_options(op).errors, 0)
    ELSE Result(TRUE, 0, 0)

\* llvm_gen_keyword_fill (lines 3779-3820): every keyword argument that the
\* closure does not have, with that name and type, gives a warning
llvm_gen_keyword_fill(op) == Result(TRUE, 0, op.kw)

\* llvm_gen_closure (lines 3824-3945): a = 1 when the renderer knows the
\* closure, b formal arguments of an incompatible type
llvm_gen_closure(op) ==
    IF op.a = 0 THEN Result(FALSE, 1, 0)
    ELSE Result(TRUE, op.b, llvm_gen_keyword_fill(op).warnings)

\* llvm_gen_pointcloud_search (lines 3948-4080): a the capacity of the output
\* arrays, b the constant Max_points (b < 0: not a constant, clamped when the
\* shader runs); arrays too small for a constant Max_points give a warning
llvm_gen_pointcloud_search(op) ==
    Result(TRUE, 0, IF op.b >= 0 /\ op.a < op.b THEN 1 ELSE 0)

\* the zero byte that ends a string
NUL == "NUL"

\* llvm_gen_printf (lines 806-812) and the two generators it chooses from,
\* llvm_gen_printf_legacy (288-518) and llvm_gen_print_fmt (520-802), which
\* scan the format alike.  A format that is not constant is a warning and
\* fails (301-305, 531-535).  Otherwise the format is read up to its zero
\* byte (329, 557): "%%" is skipped (331-336), any other '%' starts a
\* conversion that runs to the next conversion character or to the zero byte
\* (338-343), and the character it stopped at is stepped over (344); a
\* conversion with no argument left is an error and fails (345-350,
\* 579-584), or else it takes one argument.  A format that ends within a
\* conversion makes the scan step over the terminator and go on in the bytes
\* that follow it: op.past, whatever the memory holds there.  arg counts the
\* arguments taken, op.b those the op has after the format.
llvm_gen_printf(op) ==
    LET text == op.format \o <<NUL>> \o op.past
        at(p) == IF p > Len(text) THEN NUL ELSE text[p]
        formatchars == {"c", "d", "e", "f", "g", "i", "m", "n", "o", "p", "s", "u",
                        "v", "x", "X"}
        RECURSIVE conversion_end(_)
        conversion_end(p) ==
            IF at(p) = NUL \/ at(p) \in formatchars THEN p ELSE conversion_end(p + 1)
        RECURSIVE scan(_, _)
        scan(p, arg) ==
            IF at(p) = NUL THEN TRUE
            ELSE IF at(p) # "%" THEN scan(p + 1, arg)
            ELSE IF at(p + 1) = "%" THEN scan(p + 2, arg)
            ELSE IF arg >= op.b THEN FALSE
            ELSE scan(conversion_end(p) + 1, arg + 1)
    IN IF ~op.constant THEN Result(FALSE, 0, 1)
       ELSE IF scan(1, 0) THEN Result(TRUE, 0, 0)
       ELSE Result(FALSE, 1, 0)

RECURSIVE llvm_gen_op(_)
RECURSIVE build_llvm_code(_)

\* llvm_gen_if (lines 2480-2504): the then and else ranges are built, what
\* build_llvm_code returns is not looked at
llvm_gen_if(op) ==
    Result(TRUE,
           build_llvm_code(op.subs[1]).errors + build_llvm_code(op.subs[2]).errors,
           build_llvm_code(op.subs[1]).warnings + build_llvm_code(op.subs[2]).warnings)

\* llvm_gen_loop_op (lines 2508-2548): init, condition, body, step
llvm_gen_loop_op(op) ==
    Result(TRUE,
           build_llvm_code(op.subs[1]).errors + build_llvm_code(op.subs[2]).errors
             + build_llvm_code(op.subs[3]).errors + build_llvm_code(op.subs[4]).errors,
           build_llvm_code(op.subs[1]).warnings + build_llvm_code(op.subs[2]).warnings
             + build_llvm_code(op.subs[3]).warnings + build_llvm_code(op.subs[4]).warnings)

\* llvm_gen_functioncall (lines 4369-4402): the body of the function
llvm_gen_functioncall(op) ==
    Result(TRUE, build_llvm_code(op.subs[1]).errors, build_llvm_code(op.subs[1]).warnings)

\* the generator of an op
llvm_gen_op(op) ==
    IF op.kind = "texture" THEN llvm_gen_texture(op)
    ELSE IF op.kind = "trace" THEN llvm_gen_trace(op)
    ELSE IF op.kind = "noise" THEN llvm_gen_noise(op)
    ELSE IF op.kind = "closure" THEN llvm_gen_closure(op)
    ELSE IF op.kind = "printf" THEN llvm_gen_printf(op)
    ELSE IF op.kind = "pointcloud_search" THEN llvm_gen_pointcloud_search(op)
    ELSE IF op.kind = "if" THEN llvm_gen_if(op)
    ELSE IF op.kind = "loop" THEN llvm_gen_loop_op(op)
    ELSE IF op.kind = "functioncall" THEN llvm_gen_functioncall(op)
    ELSE Result(TRUE, 0, 0)

\* BackendLLVM::build_llvm_code: the generators of the ops of a range are run
\* in turn, and the first that fails makes it return false
build_llvm_code(ops) ==
    IF Len(ops) = 0 THEN Result(TRUE, 0, 0)
    ELSE LET r == llvm_gen_op(Head(ops))
             rest == build_llvm_code(Tail(ops))
         IN IF ~r.ok THEN r
            ELSE Result(rest.ok, r.errors + rest.errors, r.warnings + rest.warnings)

\* the ops of the shaders compiled
Nop == Op("nop", 0, 0, <<>>)
\* printf("%d %d", x): two conversions and one argument
PrintfMismatch == PrintfOp(TRUE, <<"%", "d", " ", "%", "d">>, <<>>, 1)
\* printf with a format that ends within a conversion, "%" and "x%5.", with
\* no, one or two arguments; after the format's terminator the memory holds
\* a zero byte, or bytes that read as one more conversion
PastBytes == {<<>>, <<"%", "d">>}
TruncatedPrintfOps ==
    {PrintfOp(TRUE, f, past, n) :
        f \in {<<"%">>, <<"x", "%", "5", ".">>}, past \in PastBytes, n \in 0 .. 2}
LeafOps ==
    { Nop,
      TextureOp(<<Option("blur", "float", TRUE)>>),
      TextureOp(<<Option("bogus", "int", TRUE)>>),
      TextureOp(<<Option("colorspace", "string", TRUE)>>),
      TextureOp(<<Option("colorspace", "string", FALSE)>>),
      TextureOp(<<Option("blur", "float", FALSE), Option("colorspace", "string", FALSE),
                  Option("bogus", "int", TRUE)>>),
      TextureOp(<<Option("", "int", TRUE), Option("blur", "string", TRUE)>>),
      Op("trace", 1, 0, <<>>), Op("trace", 0, 1, <<>>),
      NoiseOp("noise", TRUE, "perlin", FALSE, <<>>),
      NoiseOp("noise", TRUE, "perlin", FALSE, <<Option("bogus", "int", TRUE)>>),
      NoiseOp("noise", TRUE, "gabor", FALSE, <<Option("bandwidth", "float", TRUE)>>),
      NoiseOp("noise", TRUE, "gabor", FALSE, <<Option("bogus", "int", TRUE)>>),
      NoiseOp("noise", TRUE, "gabor", TRUE, <<Option("bogus", "int", TRUE)>>),
      NoiseOp("noise", TRUE, "", FALSE, <<Option("anisotropic", "float", TRUE)>>),
      NoiseOp("pnoise", TRUE, "simplex", FALSE, <<>>),
      NoiseOp("pnoise", FALSE, "", FALSE, <<Option("bogus", "int", TRUE)>>),
      NoiseOp("noise", TRUE, "wavelet", FALSE, <<>>),
      Op("closure", 1, 0, <<>>), Op("closure", 1, 1, <<>>), Op("closure", 0, 0, <<>>),
      PrintfOp(TRUE, <<"%", "d">>, <<>>, 1), PrintfMismatch,
      PrintfOp(FALSE, <<>>, <<>>, 0),
      PrintfOp(TRUE, <<"1", "0", "0", "%", "%">>, <<>>, 0),
      KeywordOp(Op("closure", 1, 0, <<>>), 1),
      Op("pointcloud_search", 4, 2, <<>>), Op("pointcloud_search", 2, 4, <<>>),
      Op("pointcloud_search", 2, -1, <<>>) }
Bodies ==
    { <<>>, <<Nop>>, <<PrintfMismatch>>, <<Op("closure", 0, 0, <<>>), Nop>>,
      <<TextureOp(<<Option("bogus", "int", TRUE)>>)>>,
      <<Op("if", 0, 0, << <<NoiseOp("noise", TRUE, "wavelet", FALSE, <<>>)>>, <<>> >>)>> }
NestingOps ==
    {Op("if", 0, 0, <<t, e>>) : t \in Bodies, e \in {<<>>, <<PrintfMismatch>>}}
      \cup {Op("loop", 0, 0, <<i, <<Nop>>, b, <<>> >>) :
               i \in {<<>>, <<PrintfMismatch>>}, b \in Bodies}
      \cup {Op("functioncall", 0, 0, <<b>>) : b \in Bodies}

\* build_llvm_code on the main code of the layer, one op at a time: the
\* generator of the next op is run; when it fails the compilation is over
GenOp(op) ==
    /\ gen.on /\ gen.ok /\ gen.opnum < MaxOps
    /\ gen' = [gen EXCEPT !.opnum = @ + 1,
                          !.ok = llvm_gen_op(op).ok,
                          !.errors = @ + llvm_gen_op(op).errors,
                          !.op = op,
                          !.result = llvm_gen_op(op)]
    /\ UNCHANGED <<m_layers, m_optimized, pc, cfg, last, nbind, nconn, ncopy, cg,
                   stat, arr, dual, dict, ll>>

InitGen ==
    /\ m_layers = <<>> /\ m_optimized = FALSE /\ pc = "idle" /\ last = NoLast
    /\ nbind = 0 /\ nconn = 0 /\ ncopy = 0 /\ cg = Idle
    /\ stat = Idle /\ arr = Idle /\ dual = Idle /\ dict = Idle /\ ll = Idle
    /\ cfg = Config(FALSE, TRUE, AllParamNames, {})
    /\ gen = [on |-> TRUE, ok |-> TRUE, opnum |-> 0, errors |-> 0,
              op |-> Nop, result |-> Result(TRUE, 0, 0)]

NextGen ==
    \/ \E op \in LeafOps \cup TruncatedPrintfOps : GenOp(op)
    \/ \E op \in NestingOps : GenOp(op)

SpecGen == InitGen /\ [][NextGen]_vars

\* C4 (as the specification states it): when the generation of an op nested
\* in an if branch, a loop section or an inlined function body fails, the
\* generator of the enclosing if, loop or function call returns false.
C4_NestedFailurePropagates ==
    ( /\ gen.on /\ gen.opnum > 0
      /\ gen.op.kind \in {"if", "loop", "functioncall"}
      /\ \E k \in 1 .. Len(gen.op.subs) : ~build_llvm_code(gen.op.subs[k]).ok )
    => ~gen.result.ok

\* C5 (as the specification states it): a generator that reports an error (an
\* unknown texture, trace or noise option, an incompatible closure argument,
\* an unknown closure, a format that does not match its arguments) returns
\* false.
C5_ErrorMeansFailure ==
    ( /\ gen.on /\ gen.opnum > 0
      /\ gen.op.kind \in {"texture", "trace", "noise", "closure", "printf"}
      /\ gen.result.errors > 0 )
    => ~gen.result.ok

\* ------------------------------------------------ statistics of instances
\* Threads that each create an instance, bind its parameters, connect it,
\* specialize it and destroy it.  They share the shading system's counters:
\* m_stat_instances, a PeakCounter<int> whose += reads and writes the plain
\* integer it holds, and the memory totals, which are updated while
\* m_stat_mutex is held.  The totals change together in every critical
\* section, so m_stat_memory stands for all of them.
NumThreads == 2

Threads == 1 .. NumThreads

\* sizes are in units of one vector element
SizeofShaderInstance == 2

extra_room == 10

parammem_of(inst) ==
    vectorbytes(inst, "iparams") + vectorbytes(inst, "fparams")
      + vectorbytes(inst, "sparams")

\* ShaderInstance::make_symbol_room (lines 368-388), without its statistics
make_symbol_room(inst, moresyms) ==
    LET oldsize == inst.capacity.instsymbols
        newsize == Len(inst.instsymbols) + moresyms + extra_room
    IN IF oldsize < Len(inst.instsymbols) + moresyms
       THEN [inst EXCEPT !.capacity.instsymbols = newsize]
       ELSE inst

\* what an operation adds to m_stat_memory, from the instance before it
\* (old) and after it (new): lines 57-60 (constructor), 355-358
\* (parameters), 383 (make_symbol_room), 427-431 (add_connection), 514
\* (copy_code_from_master), 78-83 (destructor)
StatDelta(op, old, new) ==
    CASE op = "ctor" -> parammem_of(new) + SizeofShaderInstance
      [] op = "parameters" -> vectorbytes(new, "instoverrides") + parammem_of(new)
      [] op = "make_symbol_room" ->
            vectorbytes(new, "instsymbols") - vectorbytes(old, "instsymbols")
      [] op = "add_connection" ->
            vectorbytes(new, "connections") - vectorbytes(old, "connections")
      [] op = "copy_code_from_master" ->
            vectorbytes(new, "instsymbols") - vectorbytes(old, "instoverrides")
      [] op = "dtor" ->
            0 - (vectorbytes(old, "instsymbols") + vectorbytes(old, "instoverrides")
                   + parammem_of(old) + vectorbytes(old, "connections")
                   + SizeofShaderInstance)

\* mem: what the thread's instance has added to the totals; d: what the
\* operation it is in adds
NoThread == [pc |-> "none", op |-> "none", tmp |-> 0, mem |-> 0, d |-> 0,
             held |-> NewInstance("null", "a", FALSE)]

\* the order in which a layer is set up: its parameters are bound, it is
\* connected to earlier layers, and the group is optimized
StatOrder(op) ==
    CASE op = "ctor" -> 0
      [] op = "parameters" -> 1
      [] op = "add_connection" -> 2
      [] op = "copy_code_from_master" -> 3
      [] op = "make_symbol_room" -> 4

\* the thread's position after the statement it is at
StatThread(t, f) == [stat EXCEPT !.thr[t] = f]

\* no thread has ended the process
StatRunning == stat.on /\ \A t \in Threads : stat.thr[t].pc # "aborted"

\* ShaderInstance::ShaderInstance, up to the += on m_stat_instances
StatConstruct(t, m) ==
    /\ StatRunning /\ stat.thr[t].pc = "none"
    /\ LET new == NewInstance(m, LayerNames[t], FALSE)
       IN stat' = StatThread(t, [stat.thr[t] EXCEPT
                                   !.pc = "count_load", !.op = "ctor", !.held = new,
                                   !.d = StatDelta("ctor", new, new)])
    /\ UNCHANGED <<m_layers, m_optimized, pc, cfg, last, nbind, nconn, ncopy,
                   cg, gen, arr, dual, dict, ll>>

\* ShaderInstance::~ShaderInstance, up to the -= on m_stat_instances
StatDestroy(t) ==
    /\ StatRunning /\ stat.thr[t].pc = "idle"
    /\ stat' = StatThread(t, [stat.thr[t] EXCEPT
                                !.pc = "count_load", !.op = "dtor",
                                !.d = StatDelta("dtor", stat.thr[t].held, stat.thr[t].held)])
    /\ UNCHANGED <<m_layers, m_optimized, pc, cfg, last, nbind, nconn, ncopy,
                   cg, gen, arr, dual, dict, ll>>

\* what parameters, add_connection (of an array to the unsized array
\* parameter), copy_code_from_master and make_symbol_room(1) do to the
\* thread's own instance before the statistics block at their end; fatal
\* when the operation does not get there
StatEffect(op, old) ==
    IF op = "parameters"
    THEN [held |-> parameters(old, << <<Kd8, NoHint>> >>, FALSE),
          fatal |-> "none", locks |-> TRUE]
    ELSE IF op = "add_connection"
    THEN LET r == add_connection(old, 0,
                                 ConnectedParam(8, mastersymbol(old, 8).type),
                                 ConnectedParam(2, mastersymbol(old, 2).type))
         IN [held |-> r.inst, fatal |-> r.fatal, locks |-> TRUE]
    ELSE IF op = "copy_code_from_master"
    THEN LET r == copy_code_from_master(old, {})
         IN [held |-> r.inst, fatal |-> r.fatal, locks |-> TRUE]
    ELSE LET new == make_symbol_room(old, 1)
         IN [held |-> new, fatal |-> "none", locks |-> new # old]

\* parameters, add_connection, copy_code_from_master, make_symbol_room on
\* the thread's own instance, up to the statistics block at their end
StatOperation(t, op) ==
    /\ StatRunning /\ stat.thr[t].pc = "idle"
    /\ StatOrder(stat.thr[t].op) < StatOrder(op)
    /\ op = "add_connection" => stat.thr[t].held.master = "matte"
    /\ LET me == stat.thr[t]
           e == StatEffect(op, me.held)
       IN stat' = StatThread(t,
                     IF e.fatal # "none" THEN [me EXCEPT !.pc = "aborted", !.op = op]
                     ELSE [me EXCEPT !.pc = IF e.locks THEN "lock" ELSE "idle",
                                     !.op = op, !.held = e.held,
                                     !.d = StatDelta(op, me.held, e.held)])
    /\ UNCHANGED <<m_layers, m_optimized, pc, cfg, last, nbind, nconn, ncopy,
                   cg, gen, arr, dual, dict, ll>>

\* PeakCounter::operator+= on m_stat_instances: the read of m_current
PeakCounterLoad(t) ==
    /\ StatRunning /\ stat.thr[t].pc = "count_load"
    /\ stat' = StatThread(t, [stat.thr[t] EXCEPT !.pc = "count_store",
                                                  !.tmp = stat.m_stat_instances])
    /\ UNCHANGED <<m_layers, m_optimized, pc, cfg, last, nbind, nconn, ncopy,
                   cg, gen, arr, dual, dict, ll>>

\* PeakCounter::operator+= on m_stat_instances: the write of m_current
PeakCounterStore(t) ==
    /\ StatRunning /\ stat.thr[t].pc = "count_store"
    /\ stat' = [stat EXCEPT
          !.m_stat_instances = stat.thr[t].tmp
                                + (IF stat.thr[t].op = "ctor" THEN 1 ELSE -1),
          !.thr[t].pc = "lock"]
    /\ UNCHANGED <<m_layers, m_optimized, pc, cfg, last, nbind, nconn, ncopy,
                   cg, gen, arr, dual, dict, ll>>

\* spin_lock lock(ss.m_stat_mutex)
StatLock(t) ==
    /\ StatRunning /\ stat.thr[t].pc = "lock" /\ stat.m_stat_mutex = 0
    /\ stat' = [stat EXCEPT !.m_stat_mutex = t, !.thr[t].pc = "mem_load"]
    /\ UNCHANGED <<m_layers, m_optimized, pc, cfg, last, nbind, nconn, ncopy,
                   cg, gen, arr, dual, dict, ll>>

\* ss.m_stat_memory += ...: the read
StatMemLoad(t) ==
    /\ StatRunning /\ stat.thr[t].pc = "mem_load"
    /\ stat' = StatThread(t, [stat.thr[t] EXCEPT !.pc = "mem_store",
                                                  !.tmp = stat.m_stat_memory])
    /\ UNCHANGED <<m_layers, m_optimized, pc, cfg, last, nbind, nconn, ncopy,
                   cg, gen, arr, dual, dict, ll>>

\* ss.m_stat_memory += ...: the write, and the end of the lock's scope
StatMemStore(t) ==
    /\ StatRunning /\ stat.thr[t].pc = "mem_store"
    /\ LET me == stat.thr[t]
           d == me.d
       IN stat' = [stat EXCEPT
             !.m_stat_memory = me.tmp + d,
             !.m_stat_mutex = 0,
             !.thr[t] = [me EXCEPT !.pc = IF me.op = "dtor" THEN "gone" ELSE "idle",
                                   !.mem = @ + d]]
    /\ UNCHANGED <<m_layers, m_optimized, pc, cfg, last, nbind, nconn, ncopy,
                   cg, gen, arr, dual, dict, ll>>

InitStats ==
    /\ m_layers = <<>> /\ m_optimized = FALSE /\ pc = "idle" /\ last = NoLast
    /\ nbind = 0 /\ nconn = 0 /\ ncopy = 0 /\ cg = Idle /\ gen = Idle
    /\ arr = Idle /\ dual = Idle /\ dict = Idle /\ ll = Idle
    /\ cfg = Config(FALSE, TRUE, AllParamNames, {})
    /\ stat = [on |-> TRUE, m_stat_mutex |-> 0, m_stat_instances |-> 0,
               m_stat_memory |-> 0, thr |-> [t \in Threads |-> NoThread]]

NextStats ==
    \E t \in Threads :
       \/ \E m \in Masters : StatConstruct(t, m)
       \/ StatDestroy(t)
       \/ \E op \in {"parameters", "add_connection", "copy_code_from_master",
                      "make_symbol_room"} :
             StatOperation(t, op)
       \/ PeakCounterLoad(t)
       \/ PeakCounterStore(t)
       \/ StatLock(t)
       \/ StatMemLoad(t)
       \/ StatMemStore(t)

SpecStats == InitStats /\ [][NextStats]_vars

\* what the instances of threads 1 .. n have added to the memory totals
RECURSIVE StatMemOf(_)
StatMemOf(n) == IF n = 0 THEN 0 ELSE stat.thr[n].mem + StatMemOf(n - 1)

\* C11 (as the specification states it): every update of a shared counter,
\* the instance count as well as the memory totals, is performed by a thread
\* that holds the statistics lock, so the counters always account for what
\* the finished operations did.
C11_CountersUpdatedUnderLock ==
    stat.on =>
      /\ \A t \in Threads :
            stat.thr[t].pc \in {"count_load", "count_store", "mem_load", "mem_store"}
               => stat.m_stat_mutex = t
      /\ (\A t \in Threads : stat.thr[t].pc \in {"none", "idle", "gone"})
            => /\ stat.m_stat_instances
                     = Cardinality({t \in Threads : stat.thr[t].pc = "idle"})
               /\ stat.m_stat_memory = StatMemOf(NumThreads)

\* ------------------------------------------------------ array element ops
\* aref and aassign on an array of ArrayLength elements.  An element stands
\* for all its components and derivatives: the generators address every one
\* of them with the same index.  The index symbol is a constant or a value
\* only known when the shader runs; the generated code is run on the spot.
ArrayLength == 3
ElemValues == 0 .. 1
IndexValues == -2 .. ArrayLength + 1

IndexSym(const, v) == [is_constant |-> const, value |-> v]
IndexSyms == {IndexSym(c, v) : c \in BOOLEAN, v \in IndexValues}

\* osl_range_check: an index out of range is reported and clamped
osl_range_check(indexvalue, length) ==
    IF indexvalue < 0 \/ indexvalue >= length
    THEN (IF indexvalue >= length THEN length - 1 ELSE 0)
    ELSE indexvalue

\* the index code with the result of the osl_range_check call dropped
llvm_gen_index_raw(range_checking, Index, length) ==
    [checked |-> range_checking
                 /\ ~(Index.is_constant /\ Index.value >= 0 /\ Index.value < length),
     index |-> Index.value]

\* the code generated for the index: whether osl_range_check is called, and
\* the index the element is addressed with when Index holds the value it has
llvm_gen_index(range_checking, Index, length) ==
    IF range_checking
       /\ ~(Index.is_constant /\ Index.value >= 0 /\ Index.value < length)
    THEN [checked |-> TRUE, index |-> osl_range_check(Index.value, length)]
    ELSE [checked |-> FALSE, index |-> Index.value]

InRange(i, length) == i >= 0 /\ i < length

\* Result = Src[Index]; a read outside the array yields whatever is there
llvm_gen_aref(Index) ==
    /\ arr.on
    /\ LET g == llvm_gen_index(arr.range_checking, Index, Len(arr.mem))
       IN \E junk \in ElemValues :
            arr' = [arr EXCEPT
               !.result = IF InRange(g.index, Len(arr.mem))
                          THEN arr.mem[g.index + 1] ELSE junk,
               !.op = [kind |-> "aref", Index |-> Index, checked |-> g.checked,
                       index |-> g.index]]
    /\ UNCHANGED <<m_layers, m_optimized, pc, cfg, last, nbind, nconn, ncopy,
                   cg, gen, stat, dual, dict, ll>>

\* Result[Index] = Src; a write outside the array lands in other memory
llvm_gen_aassign(Index, Src) ==
    /\ arr.on
    /\ LET g == llvm_gen_index(arr.range_checking, Index, Len(arr.mem))
       IN arr' = [arr EXCEPT
             !.mem = IF InRange(g.index, Len(arr.mem))
                     THEN [arr.mem EXCEPT ![g.index + 1] = Src] ELSE arr.mem,
             !.wild = @ \/ ~InRange(g.index, Len(arr.mem)),
             !.op = [kind |-> "aassign", Index |-> Index, checked |-> g.checked,
                     index |-> g.index]]
    /\ UNCHANGED <<m_layers, m_optimized, pc, cfg, last, nbind, nconn, ncopy,
                   cg, gen, stat, dual, dict, ll>>

InitArray ==
    /\ m_layers = <<>> /\ m_optimized = FALSE /\ pc = "idle" /\ last = NoLast
    /\ nbind = 0 /\ nconn = 0 /\ ncopy = 0 /\ cg = Idle /\ gen = Idle
    /\ stat = Idle /\ dual = Idle /\ dict = Idle /\ ll = Idle
    /\ cfg = Config(FALSE, TRUE, AllParamNames, {})
    /\ arr \in [on : {TRUE}, range_checking : BOOLEAN,
                mem : {[i \in 1 .. ArrayLength |-> 0]}, result : {0},
                wild : {FALSE},
                op : {[kind |-> "none", Index |-> IndexSym(TRUE, 0),
                       checked |-> FALSE, index |-> 0]}]

NextArray ==
    \/ \E Index \in IndexSyms : llvm_gen_aref(Index)
    \/ \E Index \in IndexSyms, Src \in ElemValues : llvm_gen_aassign(Index, Src)

SpecArray == InitArray /\ [][NextArray]_vars

\* C12: with range checking enabled, an aref or aassign whose index is not a
\* constant inside [0, arraylength) calls osl_range_check and addresses the
\* element with the index the call returns, which is inside the array; no
\* write lands outside the array.
C12_RangeCheckedAccess ==
    (arr.on /\ arr.range_checking) =>
      /\ ~arr.wild
      /\ ( /\ arr.op.kind \in {"aref", "aassign"}
           /\ ~(arr.op.Index.is_constant
                /\ InRange(arr.op.Index.value, Len(arr.mem))) )
         => /\ arr.op.checked
            /\ arr.op.index = osl_range_check(arr.op.Index.value, Len(arr.mem))
            /\ InRange(arr.op.index, Len(arr.mem))

\* a write through an index that is ArrayLength when the shader runs, with
\* range checking: the last element is the one written
C12_Witness ==
    /\ arr.on /\ arr.range_checking
    /\ arr.op.kind = "aassign" /\ ~arr.op.Index.is_constant
    /\ arr.op.Index.value = Len(arr.mem)
    /\ arr.op.index = Len(arr.mem) - 1
    /\ arr.mem[Len(arr.mem)] = 1

\* ------------------------------------------------- arithmetic with duals
\* add, sub, mul and div on float-based symbols.  A symbol holds its value
\* and, when it has derivatives, its dx and dy channels, one entry per
\* component.  The generated code is run on the spot on the symbols' values.
MaxVal == 3
FloatVals == -1 .. MaxVal
DerivVals == 0 .. 1
Garbage == 9

NumComponents(t) ==
    CASE t = "float" -> 1 [] t = "vector" -> 3 [] t = "matrix" -> 16

Sym(t, d, val, dx, dy) ==
    [type |-> t, has_derivs |-> d, val |-> val, dx |-> dx, dy |-> dy]
Plain(t, val) == Sym(t, FALSE, val, <<>>, <<>>)

Floats ==
    {Plain("float", <<v>>) : v \in FloatVals}
    \cup {Sym("float", TRUE, <<v>>, <<x>>, <<y>>) :
             v \in FloatVals, x \in DerivVals, y \in DerivVals}
Vectors ==
    { Plain("vector", <<1, 2, 3>>),
      Plain("vector", <<1, -1, 0>>),
      Sym("vector", TRUE, <<2, 0, -1>>, <<1, 0, 1>>, <<0, 1, 1>>),
      Sym("vector", TRUE, <<-1, 1, 1>>, <<0, 1, 0>>, <<1, 1, 0>>) }
\* diagonal matrices with entries 1 and -1
Diag(a, b, c, d) ==
    <<a, 0, 0, 0,  0, b, 0, 0,  0, 0, c, 0,  0, 0, 0, d>>
Matrices ==
    { Plain("matrix", Diag(1, 1, 1, 1)),
      Plain("matrix", Diag(1, -1, 1, -1)),
      Sym("matrix", TRUE, Diag(-1, 1, 1, 1), Diag(1, 0, 0, 0), Diag(0, 1, 0, 0)) }
Operands == Floats \cup Vectors \cup Matrices

\* the result symbol before the op: whatever its storage held
ResultSym(t, d) ==
    LET junk == [i \in 1 .. NumComponents(t) |-> Garbage]
    IN IF d THEN Sym(t, TRUE, junk, junk, junk) ELSE Plain(t, junk)

\* BackendLLVM::llvm_load_value(sym, deriv, NULL, component): a derivative of
\* a symbol without derivatives is the constant 0; a scalar is broadcast
llvm_load_value(S, deriv, component) ==
    IF deriv > 0 /\ ~S.has_derivs THEN 0
    ELSE LET k == IF S.type = "float" THEN 1 ELSE component + 1
         IN CASE deriv = 0 -> S.val[k]
              [] deriv = 1 -> S.dx[k]
              [] deriv = 2 -> S.dy[k]

\* BackendLLVM::llvm_zero_derivs
llvm_zero_derivs(S) ==
    IF S.has_derivs
    THEN [S EXCEPT !.dx = [i \in 1 .. NumComponents(S.type) |-> 0],
                   !.dy = [i \in 1 .. NumComponents(S.type) |-> 0]]
    ELSE S

\* the value and derivative channels stored by a component-wise loop:
\* llvm_store_value(r, Rsym, deriv, component) for every component
StoreValues(Rsym, f(_)) ==
    [Rsym EXCEPT !.val = [i \in 1 .. NumComponents(Rsym.type) |-> f(i - 1)]]
StoreDerivs(Rsym, fx(_), fy(_)) ==
    IF Rsym.has_derivs
    THEN [Rsym EXCEPT !.dx = [i \in 1 .. NumComponents(Rsym.type) |-> fx(i - 1)],
                        !.dy = [i \in 1 .. NumComponents(Rsym.type) |-> fy(i - 1)]]
    ELSE Rsym

op_add(a, b) == a + b
op_sub(a, b) == a - b
op_mul(a, b) == a * b
\* the quotients taken here are whole numbers
op_div(a, b) == IF b < 0 THEN 0 - (a \div (0 - b)) ELSE a \div b
osl_safe_div(a, b) == IF b = 0 THEN 0 ELSE op_div(a, b)

\* 4x4 matrices, row by row
MatMul(a, b) ==
    [k \in 1 .. 16 |->
       LET r == (k - 1) \div 4
           c == (k - 1) % 4
       IN a[4 * r + 1] * b[c + 1] + a[4 * r + 2] * b[4 + c + 1]
          + a[4 * r + 3] * b[8 + c + 1] + a[4 * r + 4] * b[12 + c + 1]]
MatScale(m, f) == [k \in 1 .. 16 |-> m[k] * f]
\* a diagonal matrix with entries 1 and -1 is its own inverse
MatInverse(m) == m
osl_mul_mmf(m, f) == MatScale(m, f)
osl_mul_mmm(a, b) == MatMul(a, b)
osl_div_mfm(f, m) == MatScale(MatInverse(m), f)
osl_div_mmf(m, f) == [k \in 1 .. 16 |-> osl_safe_div(m[k], f)]
osl_div_mmm(a, b) == MatMul(a, MatInverse(b))

\* add and sub, which differ in the operation only
llvm_gen_addsub(Rsym, A, B, op(_, _)) ==
    LET v(i) == op(llvm_load_value(A, 0, i), llvm_load_value(B, 0, i))
        rx(i) == op(llvm_load_value(A, 1, i), llvm_load_value(B, 1, i))
        ry(i) == op(llvm_load_value(A, 2, i), llvm_load_value(B, 2, i))
        R1 == StoreValues(Rsym, v)
    IN IF Rsym.has_derivs
       THEN (IF A.has_derivs \/ B.has_derivs
             THEN StoreDerivs(R1, rx, ry)
             ELSE llvm_zero_derivs(R1))
       ELSE R1

\* add that leaves the derivatives of the result alone when no operand has any
llvm_gen_add_keeps_derivs(Rsym, A, B) ==
    LET v(i) == op_add(llvm_load_value(A, 0, i), llvm_load_value(B, 0, i))
        rx(i) == op_add(llvm_load_value(A, 1, i), llvm_load_value(B, 1, i))
        ry(i) == op_add(llvm_load_value(A, 2, i), llvm_load_value(B, 2, i))
        R1 == StoreValues(Rsym, v)
    IN IF Rsym.has_derivs /\ (A.has_derivs \/ B.has_derivs)
       THEN StoreDerivs(R1, rx, ry)
       ELSE R1

\* add whose derivative channels are taken from the first operand only
llvm_gen_add_first_derivs(Rsym, A, B) ==
    LET v(i) == op_add(llvm_load_value(A, 0, i), llvm_load_value(B, 0, i))
        rx(i) == llvm_load_value(A, 1, i)
        ry(i) == llvm_load_value(A, 2, i)
        R1 == StoreValues(Rsym, v)
    IN IF Rsym.has_derivs
       THEN (IF A.has_derivs \/ B.has_derivs
             THEN StoreDerivs(R1, rx, ry)
             ELSE llvm_zero_derivs(R1))
       ELSE R1

llvm_gen_add(Rsym, A, B) == llvm_gen_addsub(Rsym, A, B, op_add)
llvm_gen_sub(Rsym, A, B) == llvm_gen_addsub(Rsym, A, B, op_sub)

\* mul whose derivative channels leave out the term of the second operand
llvm_gen_mul_one_term(Rsym, A, B) ==
    LET a(i) == llvm_load_value(A, 0, i)
        b(i) == llvm_load_value(B, 0, i)
        v(i) == op_mul(a(i), b(i))
        rx(i) == op_mul(llvm_load_value(A, 1, i), b(i))
        ry(i) == op_mul(llvm_load_value(A, 2, i), b(i))
        R1 == StoreValues(Rsym, v)
    IN IF Rsym.has_derivs /\ (A.has_derivs \/ B.has_derivs)
       THEN StoreDerivs(R1, rx, ry)
       ELSE llvm_zero_derivs(R1)

llvm_gen_mul(Rsym, A, B) ==
    IF Rsym.type = "matrix"
    THEN llvm_zero_derivs(
            [Rsym EXCEPT !.val =
                IF A.type = "float" THEN osl_mul_mmf(B.val, A.val[1])
                ELSE IF B.type = "float" THEN osl_mul_mmf(A.val, B.val[1])
                ELSE osl_mul_mmm(A.val, B.val)])
    ELSE
    LET a(i) == llvm_load_value(A, 0, i)
        b(i) == llvm_load_value(B, 0, i)
        v(i) == op_mul(a(i), b(i))
        rx(i) == op_add(op_mul(a(i), llvm_load_value(B, 1, i)),
                        op_mul(llvm_load_value(A, 1, i), b(i)))
        ry(i) == op_add(op_mul(a(i), llvm_load_value(B, 2, i)),
                        op_mul(llvm_load_value(A, 2, i), b(i)))
        R1 == StoreValues(Rsym, v)
    IN IF Rsym.has_derivs /\ (A.has_derivs \/ B.has_derivs)
       THEN StoreDerivs(R1, rx, ry)
       ELSE llvm_zero_derivs(R1)

\* B_constant: B.is_constant(); the division is unguarded only by a constant
\* that is not zero
llvm_gen_div(Rsym, A, B, B_constant) ==
    IF Rsym.type = "matrix"
    THEN llvm_zero_derivs(
            [Rsym EXCEPT !.val =
                IF A.type = "float" THEN osl_div_mfm(A.val[1], B.val)
                ELSE IF B.type = "float" THEN osl_div_mmf(A.val, B.val[1])
                ELSE osl_div_mmm(A.val, B.val)])
    ELSE
    LET plain == B_constant /\ \E k \in 1 .. Len(B.val) : B.val[k] # 0
        quot(x, y) == IF plain THEN op_div(x, y) ELSE osl_safe_div(x, y)
        a(i) == llvm_load_value(A, 0, i)
        b(i) == llvm_load_value(B, 0, i)
        a_div_b(i) == quot(a(i), b(i))
        binv(i) == quot(1, b(i))
        rx(i) == op_mul(binv(i), op_sub(llvm_load_value(A, 1, i),
                                        op_mul(a_div_b(i), llvm_load_value(B, 1, i))))
        ry(i) == op_mul(binv(i), op_sub(llvm_load_value(A, 2, i),
                                        op_mul(a_div_b(i), llvm_load_value(B, 2, i))))
        R1 == StoreValues(Rsym, a_div_b)
    IN IF Rsym.has_derivs /\ (A.has_derivs \/ B.has_derivs)
       THEN StoreDerivs(R1, rx, ry)
       ELSE llvm_zero_derivs(R1)

\* the type the front end gives the result of A op B; "none" if it rejects
ResultType(op, A, B) ==
    IF A.type = "matrix" \/ B.type = "matrix"
    THEN (IF op \in {"mul", "div"} /\ A.type # "vector" /\ B.type # "vector"
          THEN "matrix" ELSE "none")
    ELSE IF A.type = "vector" \/ B.type = "vector" THEN "vector"
    ELSE "float"

\* the divisors drawn: the quotients stay whole numbers, and a constant
\* divisor that is not zero has no zero component
WholeDivisor(B) == \A k \in 1 .. Len(B.val) : B.val[k] \in {-1, 0, 1}

\* one op: its operands and the flags of its symbols are those drawn at the
\* start
Arith(op) ==
    /\ dual.on /\ dual.op = "none"
    /\ LET A == dual.A
           B == dual.B
           B_constant == dual.B_constant
       IN /\ ResultType(op, A, B) # "none"
          /\ op = "div" =>
                /\ WholeDivisor(B)
                /\ (B_constant /\ \E k \in 1 .. Len(B.val) : B.val[k] # 0)
                      => \A k \in 1 .. Len(B.val) : B.val[k] # 0
          /\ LET R0 == ResultSym(ResultType(op, A, B), dual.Result.has_derivs)
             IN dual' = [dual EXCEPT
                   !.op = op,
                   !.Result = CASE op = "add" -> llvm_gen_add(R0, A, B)
                                [] op = "sub" -> llvm_gen_sub(R0, A, B)
                                [] op = "mul" -> llvm_gen_mul(R0, A, B)
                                [] op = "div" -> llvm_gen_div(R0, A, B, B_constant)]
    /\ UNCHANGED <<m_layers, m_optimized, pc, cfg, last, nbind, nconn, ncopy,
                   cg, gen, stat, arr, dict, ll>>

\* a constant symbol has no derivatives
InitArith ==
    /\ m_layers = <<>> /\ m_optimized = FALSE /\ pc = "idle" /\ last = NoLast
    /\ nbind = 0 /\ nconn = 0 /\ ncopy = 0 /\ cg = Idle /\ gen = Idle
    /\ stat = Idle /\ arr = Idle /\ dict = Idle /\ ll = Idle
    /\ cfg = Config(FALSE, TRUE, AllParamNames, {})
    /\ dual \in {d \in [on : {TRUE}, op : {"none"}, A : Operands, B : Operands,
                        B_constant : BOOLEAN,
                        Result : {ResultSym("float", r) : r \in BOOLEAN}] :
                    d.B_constant => ~d.B.has_derivs}

NextArith == \E op \in {"add", "sub", "mul", "div"} : Arith(op)

SpecArith == InitArith /\ [][NextArith]_vars

ZeroChannel(ch) == \A k \in 1 .. Len(ch) : ch[k] = 0

\* C13: after add, sub, mul or div (the matrix forms of mul and div too) on a
\* result that has derivatives and operands that have none, both derivative
\* channels of every component of the result are zero.
C13_NoOperandDerivsZeroResultDerivs ==
    ( /\ dual.on /\ dual.op # "none"
      /\ dual.Result.has_derivs /\ ~dual.A.has_derivs /\ ~dual.B.has_derivs )
    => /\ Len(dual.Result.dx) = NumComponents(dual.Result.type)
       /\ Len(dual.Result.dy) = NumComponents(dual.Result.type)
       /\ ZeroChannel(dual.Result.dx) /\ ZeroChannel(dual.Result.dy)

\* a vector times a float, neither with derivatives, into a result with
\* derivatives
C13_Witness ==
    /\ dual.on /\ dual.op = "mul"
    /\ dual.A = Plain("vector", <<1, 2, 3>>) /\ dual.B = Plain("float", <<2>>)
    /\ dual.Result.has_derivs
    /\ dual.Result.val = <<2, 4, 6>>
    /\ dual.Result.dx = <<0, 0, 0>>

\* component i (from 1) of a channel, a scalar being broadcast
Component(ch, i) == IF Len(ch) = 1 THEN ch[1] ELSE ch[i]
\* a derivative channel of an operand: zero if it has no derivatives
DerivComponent(S, ch, i) == IF S.has_derivs THEN Component(ch, i) ELSE 0

\* C14: after add on a result with derivatives and exactly one operand with
\* derivatives, the value is the component-wise sum and each derivative
\* channel is that of the operand with derivatives; (2,1,0) + 3 = (5,1,0).
C14_AddTakesDerivsOfOneOperand ==
    ( /\ dual.on /\ dual.op = "add" /\ dual.Result.has_derivs
      /\ dual.A.has_derivs # dual.B.has_derivs )
    => LET D == IF dual.A.has_derivs THEN dual.A ELSE dual.B
       IN /\ \A i \in 1 .. NumComponents(dual.Result.type) :
                /\ dual.Result.val[i]
                      = Component(dual.A.val, i) + Component(dual.B.val, i)
                /\ dual.Result.dx[i] = Component(D.dx, i)
                /\ dual.Result.dy[i] = Component(D.dy, i)
          /\ ( /\ dual.A = Sym("float", TRUE, <<2>>, <<1>>, <<0>>)
               /\ dual.B = Plain("float", <<3>>) )
             => dual.Result = Sym("float", TRUE, <<5>>, <<1>>, <<0>>)

\* the scenario of the specification: A = (2,1,0), B = 3, result (5,1,0)
C14_Witness ==
    /\ dual.on /\ dual.op = "add"
    /\ dual.A = Sym("float", TRUE, <<2>>, <<1>>, <<0>>)
    /\ dual.B = Plain("float", <<3>>)
    /\ dual.Result = Sym("float", TRUE, <<5>>, <<1>>, <<0>>)

\* C15: after a component-wise mul (float and vector operands) on a result
\* with derivatives and at least one operand with derivatives, component i
\* of the result is a_i*b_i, its dx is a_i*bx_i + ax_i*b_i and its dy is
\* a_i*by_i + ay_i*b_i, a scalar being broadcast and the derivatives of an
\* operand without derivatives being zero.
C15_MulProductRule ==
    ( /\ dual.on /\ dual.op = "mul" /\ dual.Result.type # "matrix"
      /\ dual.Result.has_derivs
      /\ (dual.A.has_derivs \/ dual.B.has_derivs) )
    => \A i \in 1 .. NumComponents(dual.Result.type) :
          LET a == Component(dual.A.val, i)
              b == Component(dual.B.val, i)
              ax == DerivComponent(dual.A, dual.A.dx, i)
              ay == DerivComponent(dual.A, dual.A.dy, i)
              bx == DerivComponent(dual.B, dual.B.dx, i)
              by == DerivComponent(dual.B, dual.B.dy, i)
          IN /\ dual.Result.val[i] = a * b
             /\ dual.Result.dx[i] = a * bx + ax * b
             /\ dual.Result.dy[i] = a * by + ay * b

\* a vector with derivatives times a float with derivatives: both terms of
\* the product rule are present
C15_Witness ==
    /\ dual.on /\ dual.op = "mul"
    /\ dual.A = Sym("vector", TRUE, <<2, 0, -1>>, <<1, 0, 1>>, <<0, 1, 1>>)
    /\ dual.B = Sym("float", TRUE, <<3>>, <<1>>, <<0>>)
    /\ dual.Result = Sym("vector", TRUE, <<6, 0, -3>>, <<5, 0, 2>>, <<0, 3, 3>>)

\* -------------------------------------------------------------- dictionary
\* The dictionary of a shading context: the XML documents read, the nodes
\* found by queries (handle 0 is the placeholder "not found") and the cache
\* of queries.  Handles and document indices are 0-based as in the code.
MaxNodes == 5

\* the documents asked for: a file, and malformed XML given in the string
DocNames == {"paint.xml", "<broken"}
\* pugi::xml_document::load_file / load_string: does the document parse
xml_load(dictionaryname) == dictionaryname # "<broken"

\* the queries asked: all b elements, the children named a, and a malformed
\* XPath expression
Queries == {"//b", "a", "//["}
\* paint.xml is <a><b v="7"/><b/></a>.
\* pugi select_nodes from the context node ("" is the document itself)
select_nodes(dictionaryname, context, query) ==
    IF query = "//[" THEN [threw |-> TRUE, matches |-> <<>>]
    ELSE [threw |-> FALSE,
          matches |->
            IF dictionaryname # "paint.xml" \/ ~xml_load(dictionaryname) THEN <<>>
            ELSE CASE query = "//b" -> <<"b1", "b2">>
                   [] query = "a" -> IF context = "" THEN <<"a">> ELSE <<>>]

Node(d, n, next) == [document |-> d, node |-> n, next |-> next]
\* Query: type UNKNOWN signifies a node, versus an attribute value
TypeUnknown == TypeOf("UNKNOWN", 1, 0)
Query(doc, node, name, type) ==
    [document |-> doc, node |-> node, name |-> name, type |-> type]
NewDictionary ==
    [m_documents |-> <<>>,
     m_document_map |-> [n \in {} |-> 0],
     m_cache |-> [q \in {} |-> 0],
     m_nodes |-> <<Node(0, "", 0)>>,
     m_intdata |-> <<>>, m_floatdata |-> <<>>, m_stringdata |-> <<>>]

\* a function with one more, or one changed, entry
MapPut(f, k, v) == [x \in DOMAIN f \cup {k} |-> IF x = k THEN v ELSE f[x]]

\* get_document_index that hands out the index of a document that did not
\* parse
get_document_index_unchecked(d, dictionaryname) ==
    IF dictionaryname \notin DOMAIN d.m_document_map
    THEN [dict |-> [d EXCEPT
                      !.m_document_map = MapPut(@, dictionaryname, Len(d.m_documents)),
                      !.m_documents = Append(@, dictionaryname)],
          dindex |-> Len(d.m_documents),
          error |-> ~xml_load(dictionaryname)]
    ELSE [dict |-> d, dindex |-> d.m_document_map[dictionaryname], error |-> FALSE]

get_document_index(d, dictionaryname) ==
    IF dictionaryname \notin DOMAIN d.m_document_map
    THEN LET dindex == Len(d.m_documents)
             d1 == [d EXCEPT !.m_document_map = MapPut(@, dictionaryname, dindex),
                             !.m_documents = Append(@, dictionaryname)]
         IN IF ~xml_load(dictionaryname)
            THEN [dict |-> [d1 EXCEPT !.m_document_map = MapPut(@, dictionaryname, -1)],
                  dindex |-> -1, error |-> TRUE]
            ELSE [dict |-> d1, dindex |-> dindex, error |-> FALSE]
    ELSE [dict |-> d, dindex |-> d.m_document_map[dictionaryname], error |-> FALSE]

\* qfound != m_cache.end() (mutant: the cache is never hit)
cached_never(d, q) == FALSE

cached(d, q) == q \in DOMAIN d.m_cache

\* the part the two dict_find share: the cache, the query, the new nodes
find_nodes(d, dindex, nodeID, context, query) ==
    LET q == Query(dindex, nodeID, query, TypeUnknown)
        sel == select_nodes(d.m_documents[dindex + 1], context, query)
        firstmatch == Len(d.m_nodes)
        n == Len(sel.matches)
    IN IF cached(d, q)
       THEN [dict |-> d, ret |-> d.m_cache[q], error |-> FALSE]
       ELSE IF sel.threw
       THEN [dict |-> d, ret |-> 0, error |-> TRUE]
       ELSE IF n = 0
       THEN [dict |-> [d EXCEPT !.m_cache = MapPut(@, q, 0)], ret |-> 0,
             error |-> FALSE]
       ELSE [dict |-> [d EXCEPT
                !.m_cache = MapPut(@, q, firstmatch),
                !.m_nodes = @ \o [i \in 1 .. n |->
                                    Node(dindex, sel.matches[i],
                                         IF i < n THEN firstmatch + i ELSE 0)]],
             ret |-> firstmatch, error |-> FALSE]

\* Dictionary::dict_find(ec, dictionaryname, query)
dict_find_name(d, dictionaryname, query) ==
    LET g == get_document_index(d, dictionaryname)
    IN IF g.dindex < 0
       THEN [dict |-> g.dict, ret |-> g.dindex, error |-> g.error]
       ELSE find_nodes(g.dict, g.dindex, 0, "", query)

\* Dictionary::dict_find(ec, nodeID, query)
dict_find_node(d, nodeID, query) ==
    IF nodeID <= 0 \/ nodeID >= Len(d.m_nodes)
    THEN [dict |-> d, ret |-> 0, error |-> FALSE]
    ELSE find_nodes(d, d.m_nodes[nodeID + 1].document, nodeID,
                    d.m_nodes[nodeID + 1].node, query)

\* Dictionary::dict_next
dict_next(d, nodeID) ==
    IF nodeID <= 0 \/ nodeID >= Len(d.m_nodes) THEN 0
    ELSE d.m_nodes[nodeID + 1].next

NodeIDs == -1 .. MaxNodes + 1

\* osl_dict_find_iss
DictFindName(dictionaryname, query) ==
    /\ dict.on
    /\ LET r == dict_find_name(dict.m_dictionary, dictionaryname, query)
       IN /\ Len(r.dict.m_nodes) <= MaxNodes + 1
          /\ dict' = [dict EXCEPT
                !.m_dictionary = r.dict,
                !.call = [op |-> "dict_find", byname |-> TRUE,
                          dictionaryname |-> dictionaryname, nodeID |-> 0,
                          query |-> query],
                !.ret = r.ret, !.error = r.error]
    /\ UNCHANGED <<m_layers, m_optimized, pc, cfg, last, nbind, nconn, ncopy,
                   cg, gen, stat, arr, dual, ll>>

\* osl_dict_find_iis
DictFindNode(nodeID, query) ==
    /\ dict.on
    /\ LET r == dict_find_node(dict.m_dictionary, nodeID, query)
       IN /\ Len(r.dict.m_nodes) <= MaxNodes + 1
          /\ dict' = [dict EXCEPT
                !.m_dictionary = r.dict,
                !.call = [op |-> "dict_find", byname |-> FALSE,
                          dictionaryname |-> "", nodeID |-> nodeID,
                          query |-> query],
                !.ret = r.ret, !.error = r.error]
    /\ UNCHANGED <<m_layers, m_optimized, pc, cfg, last, nbind, nconn, ncopy,
                   cg, gen, stat, arr, dual, ll>>

\* osl_dict_next
DictNext(nodeID) ==
    /\ dict.on
    /\ dict' = [dict EXCEPT
          !.call = [op |-> "dict_next", byname |-> FALSE, dictionaryname |-> "",
                    nodeID |-> nodeID, query |-> ""],
          !.ret = dict_next(dict.m_dictionary, nodeID), !.error = FALSE]
    /\ UNCHANGED <<m_layers, m_optimized, pc, cfg, last, nbind, nconn, ncopy,
                   cg, gen, stat, arr, dual, ll>>

InitDict ==
    /\ m_layers = <<>> /\ m_optimized = FALSE /\ pc = "idle" /\ last = NoLast
    /\ nbind = 0 /\ nconn = 0 /\ ncopy = 0 /\ cg = Idle /\ gen = Idle
    /\ stat = Idle /\ arr = Idle /\ dual = Idle /\ ll = Idle
    /\ cfg = Config(FALSE, TRUE, AllParamNames, {})
    /\ dict = [on |-> TRUE, m_dictionary |-> NewDictionary,
               call |-> [op |-> "none", byname |-> FALSE, dictionaryname |-> "",
                         nodeID |-> 0, query |-> ""],
               ret |-> 0, error |-> FALSE]

NextDict ==
    \/ \E n \in DocNames, q \in Queries : DictFindName(n, q)
    \/ \E id \in NodeIDs, q \in Queries : DictFindNode(id, q)
    \/ \E id \in NodeIDs : DictNext(id)

SpecDict == InitDict /\ [][NextDict]_vars

\* a handle of a node found: positive and inside m_nodes
ValidHandle(h) == h > 0 /\ h < Len(dict.m_dictionary.m_nodes)

\* C16 (as the specification states it): dict_find, by document name or by
\* node, and dict_next return a valid positive node handle or 0 and nothing
\* else, whatever the input.
C16_HandleOrZero ==
    (dict.on /\ dict.call.op # "none") => (dict.ret = 0 \/ ValidHandle(dict.ret))

\* C16 (amended): dict_find by node and dict_next return a valid positive
\* node handle or 0; dict_find by document name returns -1, after reporting
\* an error the first time, exactly when the document does not parse, and a
\* valid positive handle or 0 otherwise.
C16_HandleOrZeroOrNoDocument ==
    (dict.on /\ dict.call.op # "none") =>
       IF dict.call.byname /\ ~xml_load(dict.call.dictionaryname)
       THEN dict.ret = -1
       ELSE dict.ret = 0 \/ ValidHandle(dict.ret)

\* the malformed document has been asked for a second time: -1 again, with
\* no further error
C16_Witness ==
    /\ dict.on /\ dict.call.op = "dict_find" /\ dict.call.byname
    /\ dict.call.dictionaryname = "<broken"
    /\ dict.ret = -1 /\ ~dict.error
    /\ Len(dict.m_dictionary.m_nodes) > 2

\* ------------------------------------------------ warnings of generators
\* C17 (as the specification states it): a generator that gives only
\* warnings for an op (a format that is not constant, a closure keyword
\* argument the closure does not have, arrays too small for a pointcloud
\* lookup) returns true for that op.
C17_WarningsDoNotAbort ==
    ( /\ gen.on /\ gen.opnum > 0
      /\ gen.op.kind \in {"printf", "closure", "pointcloud_search"}
      /\ gen.result.errors = 0 /\ gen.result.warnings > 0 )
    => gen.result.ok

\* --------------------------------------- merging and the parameter flags
\* C18 (as the specification states it): two instances of one master that
\* are not specialized yet, and whose override records of a parameter that is
\* used in the group differ in the interpolated or in the interactive flag,
\* are not mergeable, whatever the value sources of the two overrides.
C18_FlagMismatchDisqualifies ==
    (pc = "idle" /\ ~m_optimized) =>
      \A x, y \in 1 .. nlayers :
        \A i \in ParamRange(m_layers[x]) :
          ( /\ m_layers[x].master = m_layers[y].master
            /\ mastersymbol(m_layers[x], i).name \in cfg.used
            /\ \/ m_layers[x].instoverrides[i + 1].interpolated
                     # m_layers[y].instoverrides[i + 1].interpolated
               \/ m_layers[x].instoverrides[i + 1].interactive
                     # m_layers[y].instoverrides[i + 1].interactive )
          => ~mergeable(m_layers[x], m_layers[y], cfg)

\* C19 (as the specification states it): when a parameter that is used in
\* the group, and takes its value from the instance or the default in both A
\* and B, is flagged interactive in A or in B, mergeable(A, B) is false, even
\* if the two stored values are equal.
C19_InteractiveDisqualifies ==
    pc = "idle" =>
      \A x, y \in 1 .. nlayers :
        \A i \in ParamRange(m_layers[x]) :
          ( /\ m_layers[x].master = m_layers[y].master
            /\ cursymbol(m_layers[x], i).name \in cfg.used
            /\ ~is_closure_based(cursymbol(m_layers[x], i).type)
            /\ InstOrDefault(cursource(m_layers[x], i).valuesource)
            /\ InstOrDefault(cursource(m_layers[y], i).valuesource)
            /\ \/ cursource(m_layers[x], i).interactive
               \/ cursource(m_layers[y], i).interactive )
          => ~mergeable(m_layers[x], m_layers[y], cfg)

\* C20 (as the specification states it): a specialized instance has
\* userdata_params set if and only if one of its parameters or output
\* parameters is not locked, not connected and interpolated.
C20_UserdataIffInterpolated ==
    (pc = "idle" /\ m_optimized) =>
      \A x \in 1 .. nlayers :
        m_layers[x].userdata_params
          <=> \E k \in 1 .. Len(m_layers[x].instsymbols) :
                 LET s == m_layers[x].instsymbols[k]
                 IN /\ s.symtype \in {"param", "oparam"}
                    /\ ~lockgeom(s) /\ ~connected(s) /\ s.interpolated

\* ------------------------------------------------------------ loop blocks
\* The blocks the generators of loop, break and continue ops emit.  B is the
\* state of the LLVM helper: the number of basic blocks made so far, the
\* insert point, the stack of (step, after) blocks of the open loops, the
\* branches emitted, the other instructions emitted with their block; and, for the properties, a record of every loop and
\* every break/continue generated, under the path of the op in the code.
MaxBody == 2

LeafOp(opname) == [opname |-> opname, subs |-> <<>>]
\* for (init; cond; step) body, while (cond) body, do body while (cond)
LoopOp(opname, body) ==
    [opname |-> opname,
     subs |-> << IF opname = "for" THEN <<LeafOp("nop")>> ELSE <<>>,
                 <<LeafOp("nop")>>, body,
                 IF opname = "for" THEN <<LeafOp("nop")>> ELSE <<>> >>]
LoopNames == {"for", "while", "dowhile"}

NewBlocks ==
    [nblocks |-> 1, insert |-> 1, loops |-> <<>>, branches |-> {}, code |-> <<>>,
     done |-> {}]

\* LLVM_Util::op_branch(block): branch, and the insert point moves to block
op_branch(B, block) ==
    [B EXCEPT !.branches = @ \cup {[from |-> B.insert, to |-> block, cond |-> "",
                                    taken |-> TRUE]},
              !.insert = block]
\* LLVM_Util::op_branch(cond, trueblock, falseblock)
op_branch_cond(B, cond, trueblock, falseblock) ==
    [B EXCEPT !.branches = @ \cup {[from |-> B.insert, to |-> trueblock, cond |-> cond,
                                    taken |-> TRUE],
                                   [from |-> B.insert, to |-> falseblock, cond |-> cond,
                                    taken |-> FALSE]},
              !.insert = trueblock]
set_insert_point(B, block) == [B EXCEPT !.insert = block]
push_loop(B, step, after) == [B EXCEPT !.loops = Append(@, [step |-> step, after |-> after])]
pop_loop(B) == [B EXCEPT !.loops = SubSeq(@, 1, Len(@) - 1)]
loop_step_block(B) == B.loops[Len(B.loops)].step
loop_after_block(B) == B.loops[Len(B.loops)].after

\* line 2527: where the init code of a loop branches to
\* (mutant: a do-while tests its condition first, like a while)
loop_first_block_cond(opname, cond_block, body_block) == cond_block
loop_first_block(opname, cond_block, body_block) ==
    IF opname = "dowhile" THEN body_block ELSE cond_block

RECURSIVE build_llvm_blocks(_, _, _, _)
RECURSIVE llvm_gen_loop_blocks(_, _, _)

\* llvm_gen_loopmod_op (lines 2552-2564)
llvm_gen_loopmod_op(B, op, path) ==
    LET to == IF op.opname = "break" THEN loop_after_block(B) ELSE loop_step_block(B)
        B1 == op_branch(B, to)
        next_block == B1.nblocks + 1
    IN [set_insert_point(B1, next_block) EXCEPT
          !.nblocks = next_block,
          !.done = @ \cup {[path |-> path, opname |-> op.opname, from |-> B.insert,
                            to |-> to, depth |-> Len(B.loops)]}]

\* llvm_gen_loop_op (lines 2508-2548): the blocks and the branches
llvm_gen_loop_blocks(B, op, path) ==
    LET cond_block == B.nblocks + 1
        body_block == B.nblocks + 2
        step_block == B.nblocks + 3
        after_block == B.nblocks + 4
        B1 == push_loop([B EXCEPT !.nblocks = after_block], step_block, after_block)
        B2 == build_llvm_blocks(B1, op.subs[1], path \o <<1>>, 1)
        B3 == op_branch(B2, loop_first_block(op.opname, cond_block, body_block))
        B4 == build_llvm_blocks(set_insert_point(B3, cond_block), op.subs[2], path \o <<2>>, 1)
        B5 == op_branch_cond(B4, "cond != 0", body_block, after_block)
        B6 == build_llvm_blocks(set_insert_point(B5, body_block), op.subs[3], path \o <<3>>, 1)
        B7 == op_branch(B6, step_block)
        B8 == build_llvm_blocks(set_insert_point(B7, step_block), op.subs[4], path \o <<4>>, 1)
        B9 == op_branch(B8, cond_block)
    IN [pop_loop(set_insert_point(B9, after_block)) EXCEPT
          !.done = @ \cup {[path |-> path, opname |-> op.opname, from |-> B2.insert,
                            cond |-> cond_block, body |-> body_block,
                            step |-> step_block, after |-> after_block,
                            depth |-> Len(B.loops)]}]

\* BackendLLVM::build_llvm_code over the ops k .. of a range
build_llvm_blocks(B, ops, path, k) ==
    IF B.insert > 0 /\ k > Len(ops) THEN B
    ELSE LET op == ops[k]
             B1 == IF op.opname \in LoopNames THEN llvm_gen_loop_blocks(B, op, path \o <<k>>)
                   ELSE IF op.opname \in {"break", "continue"}
                        THEN llvm_gen_loopmod_op(B, op, path \o <<k>>)
                   ELSE B
         IN build_llvm_blocks(B1, ops, path, k + 1)

\* the loop bodies of the model: loops nested up to three deep, break and
\* continue before, in and after an inner loop
Bodies0 == {<<LeafOp("break")>>, <<LeafOp("continue")>>}
InnerLoops ==
    {LoopOp(n, b) : n \in LoopNames, b \in Bodies0}
    \cup {LoopOp("while", <<LoopOp("dowhile", <<LeafOp("continue")>>), LeafOp("break")>>),
          LoopOp("dowhile", <<LoopOp("for", <<LeafOp("break")>>), LeafOp("continue")>>)}
BodyOps == {LeafOp("nop"), LeafOp("break"), LeafOp("continue")} \cup InnerLoops
LoopBodies == UNION {[1 .. n -> BodyOps] : n \in 0 .. MaxBody}
LoopPrograms == {<<LoopOp(n, b)>> : n \in LoopNames, b \in LoopBodies}

\* the code of a shader whose main code is one loop is generated
GenLoop ==
    /\ ll.on /\ ~ll.built
    /\ ll' = [ll EXCEPT !.built = TRUE, !.B = build_llvm_blocks(NewBlocks, ll.ops, <<>>, 1)]
    /\ UNCHANGED <<m_layers, m_optimized, pc, cfg, last, nbind, nconn, ncopy, cg, gen,
                   stat, arr, dual, dict>>

InitLoop ==
    /\ m_layers = <<>> /\ m_optimized = FALSE /\ pc = "idle" /\ last = NoLast
    /\ nbind = 0 /\ nconn = 0 /\ ncopy = 0 /\ cg = Idle /\ gen = Idle
    /\ stat = Idle /\ arr = Idle /\ dual = Idle /\ dict = Idle
    /\ cfg = Config(FALSE, TRUE, AllParamNames, {})
    /\ ll \in [on : {TRUE}, built : {FALSE}, ops : LoopPrograms, B : {NewBlocks}]

NextLoop == GenLoop

SpecLoop == InitLoop /\ [][NextLoop]_vars

\* the loops and the break/continue ops generated
LoopsDone == {d \in ll.B.done : d.opname \in LoopNames}
ModsDone == {d \in ll.B.done : d.opname \in {"break", "continue"}}
\* the innermost loop of the code that encloses the op at path: the loop
\* with the longest path that is a proper prefix of it
Encloses(l, path) == Len(l.path) < Len(path) /\ IsPrefix(l.path, path)
InnermostLoop(path) ==
    CHOOSE l \in LoopsDone :
        /\ Encloses(l, path)
        /\ \A l2 \in LoopsDone : Encloses(l2, path) => Len(l2.path) <= Len(l.path)

\* C22: from the block the init code ends in, a do-while branches to its
\* body block and a for or while to its condition block, and to nothing
\* else; every break branches to the after block and every continue to the
\* step block of the innermost loop enclosing it, also when an inner loop
\* was generated before it; and the loop stack is empty again at the end.
C22_LoopLowering ==
    (ll.on /\ ll.built) =>
       /\ ll.B.loops = <<>>
       /\ \A l \in LoopsDone :
             {b.to : b \in {b \in ll.B.branches : b.from = l.from}}
               = {IF l.opname = "dowhile" THEN l.body ELSE l.cond}
       /\ \A d \in ModsDone :
             d.to = IF d.opname = "break" THEN InnermostLoop(d.path).after
                    ELSE InnermostLoop(d.path).step

\* C22 witness: a loop whose body holds a do-while with a continue in it, and
\* after that inner loop a break, which went to the outer loop's after block
C22_Witness ==
    /\ ll.on /\ ll.built
    /\ \E o \in LoopsDone, i \in LoopsDone, c \in ModsDone, b \in ModsDone :
          /\ o.path = <<1>> /\ i.opname = "dowhile" /\ Len(i.path) = 3
          /\ InnermostLoop(i.path) = o
          /\ c.opname = "continue" /\ InnermostLoop(c.path) = i /\ c.to = i.step
          /\ b.opname = "break" /\ InnermostLoop(b.path) = o /\ b.to = o.after
          /\ b.path[Len(b.path)] > i.path[Len(i.path)] /\ Len(b.path) = Len(i.path)
          /\ [from |-> i.from, to |-> i.body, cond |-> "", taken |-> TRUE] \in ll.B.branches

\* --------------------------------------------------------- closure blocks
\* The instructions llvm_gen_closure emits for a closure op, with the block
\* each is emitted in.  The op: whether it has a weight, whether the weight
\* is a constant and whether it is zero; the renderer's entry for the
\* closure (none when the closure is not registered), whether it has a
\* prepare and a setup method; for each positional argument whether its type
\* is that of the closure's parameter, and for each keyword argument whether
\* the closure has a keyword parameter of that name and type.
MaxClosureArgs == 2

ClosureOp(weighted, constant, zero, found, prepare, setup, formals, keywords) ==
    [weighted |-> weighted, constant |-> constant, zero |-> zero, found |-> found,
     prepare |-> prepare, setup |-> setup, formals |-> formals, keywords |-> keywords]

\* an instruction that is not a branch is emitted at the insert point
emit(B, instr, k) ==
    [B EXCEPT !.code = Append(@, [block |-> B.insert, instr |-> instr, arg |-> k])]

\* line 3885: weighted && !(weight->is_constant() && !rop.is_zero(*weight))
\* (mutant: a constant weight is never guarded)
closure_needs_guard_nonconstant(op) == op.weighted /\ ~op.constant
closure_needs_guard(op) == op.weighted /\ ~(op.constant /\ ~op.zero)

\* the loop over the positional arguments (lines 3916-3935)
RECURSIVE closure_formals_from(_, _, _)
closure_formals_from(B, formals, carg) ==
    IF carg > Len(formals) THEN B
    ELSE closure_formals_from(
             IF formals[carg] THEN emit(B, "memcpy formal", carg) ELSE B,
             formals, carg + 1)

\* llvm_gen_keyword_fill (lines 3779-3820): the copies it emits
RECURSIVE keyword_fill_from(_, _, _)
keyword_fill_from(B, keywords, attr_i) ==
    IF attr_i > Len(keywords) THEN B
    ELSE keyword_fill_from(
             IF keywords[attr_i] THEN emit(B, "memcpy keyword", attr_i) ELSE B,
             keywords, attr_i + 1)

\* llvm_gen_closure (lines 3823-3945): the instructions and the blocks
llvm_gen_closure_blocks(B, op) ==
    IF ~op.found THEN B
    ELSE
    LET B1 == emit(B, IF op.weighted THEN "osl_allocate_weighted_closure_component"
                      ELSE "osl_allocate_closure_component", 0)
        guard == closure_needs_guard(op)
        notnull_block == B1.nblocks + 1
        next_block == B1.nblocks + 2
        B2 == IF guard
              THEN op_branch_cond([B1 EXCEPT !.nblocks = next_block],
                                  "return_ptr != null", notnull_block, next_block)
              ELSE B1
        B3 == emit(B2, IF op.prepare THEN "prepare" ELSE "memset", 0)
        B4 == closure_formals_from(B3, op.formals, 1)
        B5 == IF op.setup THEN emit(B4, "setup", 0) ELSE B4
        B6 == keyword_fill_from(B5, op.keywords, 1)
        B7 == IF guard THEN op_branch(B6, next_block) ELSE B6
    IN emit(B7, "store return_ptr to Result", 0)

ArgFlags == UNION {[1 .. n -> BOOLEAN] : n \in 0 .. MaxClosureArgs}
ClosureOps ==
    {op \in {ClosureOp(w, c, z, f, p, s, fs, ks) :
                w \in BOOLEAN, c \in BOOLEAN, z \in BOOLEAN, f \in BOOLEAN,
                p \in BOOLEAN, s \in BOOLEAN, fs \in ArgFlags, ks \in ArgFlags} :
        (op.zero => op.constant) /\ (op.constant => op.weighted)}

\* the code of a closure op is generated
GenClosure ==
    /\ ll.on /\ ~ll.built
    /\ ll' = [ll EXCEPT !.built = TRUE, !.B = llvm_gen_closure_blocks(NewBlocks, ll.ops[1])]
    /\ UNCHANGED <<m_layers, m_optimized, pc, cfg, last, nbind, nconn, ncopy, cg, gen,
                   stat, arr, dual, dict>>

InitClosure ==
    /\ m_layers = <<>> /\ m_optimized = FALSE /\ pc = "idle" /\ last = NoLast
    /\ nbind = 0 /\ nconn = 0 /\ ncopy = 0 /\ cg = Idle /\ gen = Idle
    /\ stat = Idle /\ arr = Idle /\ dual = Idle /\ dict = Idle
    /\ cfg = Config(FALSE, TRUE, AllParamNames, {})
    /\ ll \in [on : {TRUE}, built : {FALSE}, ops : {<<op>> : op \in ClosureOps},
               B : {NewBlocks}]

NextClosure == GenClosure

SpecClosure == InitClosure /\ [][NextClosure]_vars

\* the instructions that write into the storage the allocation returned
ClosureWrites ==
    {i \in 1 .. Len(ll.B.code) :
        ll.B.code[i].instr \in {"prepare", "memset", "memcpy formal", "setup",
                                "memcpy keyword"}}
\* the blocks control can come from into block b, with the condition
BranchesInto(b) == {br \in ll.B.branches : br.to = b}

\* C23: for a registered closure, when the op has a weight that is not a
\* constant other than zero, the block the allocation is in ends in a branch
\* on "the returned pointer is not null"; every write into the storage is in
\* the block taken when that holds, which nothing else branches to; that
\* block and the branch not taken both lead to one block, and the store of
\* the returned pointer to the result is there.  When the op has no weight,
\* or a constant weight that is not zero, no block and no branch is made.
C23_ClosureWritesGuarded ==
    (ll.on /\ ll.built /\ ll.ops[1].found) =>
       LET op == ll.ops[1]
           code == ll.B.code
           store == code[Len(code)]
       IN /\ store.instr = "store return_ptr to Result"
          /\ IF op.weighted /\ ~(op.constant /\ ~op.zero)
             THEN \E notnull \in 2 .. ll.B.nblocks, next \in 2 .. ll.B.nblocks :
                     /\ notnull # next
                     /\ BranchesInto(notnull)
                          = {[from |-> code[1].block, to |-> notnull,
                              cond |-> "return_ptr != null", taken |-> TRUE]}
                     /\ BranchesInto(next)
                          = {[from |-> code[1].block, to |-> next,
                              cond |-> "return_ptr != null", taken |-> FALSE],
                             [from |-> notnull, to |-> next, cond |-> "", taken |-> TRUE]}
                     /\ \A i \in ClosureWrites : code[i].block = notnull
                     /\ store.block = next
             ELSE /\ ll.B.branches = {} /\ ll.B.nblocks = NewBlocks.nblocks
                  /\ \A i \in 1 .. Len(code) : code[i].block = NewBlocks.insert

\* C23 witness: a closure with a constant zero weight, no prepare method, a
\* setup method, two positional and one keyword argument copied: five writes
\* in the guarded block
C23_Witness ==
    /\ ll.on /\ ll.built /\ ll.ops[1].found
    /\ ll.ops[1].weighted /\ ll.ops[1].constant /\ ll.ops[1].zero
    /\ Cardinality(ClosureWrites) = 5
    /\ \A i \in ClosureWrites : ll.B.code[i].block = 2
    /\ ll.B.code[Len(ll.B.code)].block = 3

\* -------------------------------------------------- texture option sweep
\* The setter calls llvm_gen_texture_options emits for the optional
\* (name, value) pairs of a texture op.  A pair: the option name, the type of
\* the value, whether the value is a constant, and the value: a number, for
\* a wrap or interp name the code its decoder gives (-1 when it knows no such
\* name), for a subimage name 0 for the empty string.
MaxPairs == 2

TexFloatStr == {"width", "blur"}
TexFloat == {"swidth", "twidth", "rwidth", "sblur", "tblur", "rblur", "fill"}
TexStringCode == {"swrap", "twrap", "rwrap", "interp"}
TexInt == {"firstchannel", "subimage"}

Pair(name, valtype, constant, val) ==
    [name |-> name, valtype |-> valtype, constant |-> constant, val |-> val]

\* the fields of the option block, and TextureOpt's defaults for them
TextureOptDefaults ==
    [swidth |-> 1, twidth |-> 1, rwidth |-> 1, sblur |-> 0, tblur |-> 0, rblur |-> 0,
     swrap |-> 0, twrap |-> 0, rwrap |-> 0, fill |-> 0, firstchannel |-> 0,
     subimage |-> 0, subimagename |-> 0, interpmode |-> 3]
OtherValue == 2
UnknownCode == -1

\* the xxx_set flags a pair tests and sets
OptFlags(name) ==
    IF name = "width" THEN {"swidth", "twidth", "rwidth"}
    ELSE IF name = "blur" THEN {"sblur", "tblur", "rblur"}
    ELSE IF name = "wrap" THEN {"swrap", "twrap", "rwrap"}
    ELSE {name}
\* the default a constant value is compared with
OptDefault(p) ==
    IF p.name = "width" THEN TextureOptDefaults.swidth
    ELSE IF p.name = "blur" THEN TextureOptDefaults.sblur
    ELSE IF p.name = "wrap" THEN TextureOptDefaults.swrap
    ELSE IF p.name = "interp" THEN TextureOptDefaults.interpmode
    ELSE IF p.name = "subimage" /\ p.valtype = "string" THEN TextureOptDefaults.subimagename
    ELSE TextureOptDefaults[p.name]

\* the names of the setters, "osl_texture_set_" left out
SetterST(name) == IF name = "width" THEN "stwidth" ELSE IF name = "blur" THEN "stblur" ELSE "stwrap"
SetterR(name) == IF name = "width" THEN "rwidth" ELSE IF name = "blur" THEN "rblur" ELSE "rwrap"
SetterCode(setter) ==
    IF setter = "stwrap" THEN "stwrap_code" ELSE IF setter = "rwrap" THEN "rwrap_code"
    ELSE IF setter = "swrap" THEN "swrap_code" ELSE IF setter = "twrap" THEN "twrap_code"
    ELSE "interp_code"

\* what the setters do to the option block at run time
SetterFields(setter) ==
    IF setter = "stwidth" THEN {"swidth", "twidth"}
    ELSE IF setter = "stblur" THEN {"sblur", "tblur"}
    ELSE IF setter \in {"stwrap", "stwrap_code"} THEN {"swrap", "twrap"}
    ELSE IF setter \in {"rwrap", "rwrap_code"} THEN {"rwrap"}
    ELSE IF setter \in {"swrap", "swrap_code"} THEN {"swrap"}
    ELSE IF setter \in {"twrap", "twrap_code"} THEN {"twrap"}
    ELSE IF setter \in {"interp", "interp_code"} THEN {"interpmode"}
    ELSE {setter}
osl_texture_set(opt, call) ==
    [f \in DOMAIN opt |-> IF f \in SetterFields(call.setter) THEN call.val ELSE opt[f]]
RECURSIVE run_setters(_, _, _)
run_setters(opt, calls, k) ==
    IF k > Len(calls) THEN opt
    ELSE run_setters(osl_texture_set(opt, calls[k]), calls, k + 1)

\* "if (!xxx_set && ival && *ival == optdefaults.xxx) continue;"
\* (mutants: a default constant is elided whatever was set before; nothing
\* is elided)
default_elided_always(already_set, constant, val, default) == constant /\ val = default
default_elided_never(already_set, constant, val, default) == FALSE
default_elided(already_set, constant, val, default) ==
    ~already_set /\ constant /\ val = default

call_setter(S, setter, val, a) ==
    [S EXCEPT !.calls = Append(@, [setter |-> setter, val |-> val, a |-> a])]
mark_set(S, name) == [S EXCEPT !.set = @ \cup OptFlags(name)]

\* one pair of the loop of llvm_gen_texture_options (lines 2586-2791); S
\* holds the xxx_set flags and the calls emitted so far
texture_option(S, p, a, tex3d) ==
    LET elided == default_elided(S.set \cap OptFlags(p.name) # {}, p.constant, p.val,
                                 OptDefault(p))
    IN IF p.name \in TexFloatStr
       THEN IF elided THEN S
            ELSE LET S1 == call_setter(S, SetterST(p.name), p.val, a)
                 IN mark_set(IF tex3d THEN call_setter(S1, SetterR(p.name), p.val, a) ELSE S1,
                             p.name)
       ELSE IF p.name \in TexFloat \/ (p.name \in TexInt /\ p.valtype = "int")
       THEN IF elided THEN S ELSE mark_set(call_setter(S, p.name, p.val, a), p.name)
       ELSE IF p.name = "wrap"
       THEN LET st == IF p.constant THEN SetterCode("stwrap") ELSE "stwrap"
                r == IF p.constant THEN SetterCode("rwrap") ELSE "rwrap"
                S1 == call_setter(S, st, p.val, a)
            IN mark_set(IF tex3d THEN call_setter(S1, r, p.val, a) ELSE S1, p.name)
       ELSE IF p.name \in TexStringCode
       THEN IF p.constant
            THEN IF elided THEN S
                 ELSE mark_set(IF p.val >= 0
                               THEN call_setter(S, SetterCode(p.name), p.val, a) ELSE S,
                               p.name)
            ELSE mark_set(call_setter(S, p.name, p.val, a), p.name)
       ELSE \* subimage given by name
            IF elided THEN S
            ELSE mark_set(call_setter(S, "subimagename", p.val, a), p.name)

RECURSIVE texture_options_from(_, _, _, _)
texture_options_from(S, pairs, a, tex3d) ==
    IF a > Len(pairs) THEN S
    ELSE texture_options_from(texture_option(S, pairs[a], a, tex3d), pairs, a + 1, tex3d)

\* llvm_gen_texture_options (lines 2568-2802): the setter calls emitted
\* after osl_init_texture_options
llvm_gen_texture_option_calls(pairs, tex3d) ==
    texture_options_from([set |-> {}, calls |-> <<>>], pairs, 1, tex3d).calls

\* the pairs of the model: every option with a default, with a constant or
\* non-constant value, the default or another; constant names no decoder
\* knows
TexPairs ==
    {p \in {Pair(n, "float", c, v) : n \in TexFloatStr \cup TexFloat, c \in BOOLEAN,
                                     v \in {0, 1, OtherValue}} :
        p.val \in {OptDefault(p), OtherValue}}
    \cup {Pair(n, "int", c, v) : n \in TexInt, c \in BOOLEAN, v \in {0, OtherValue}}
    \cup {Pair("wrap", "string", c, v) : c \in BOOLEAN, v \in {0, OtherValue}}
    \cup {Pair(n, "string", c, v) : n \in {"swrap", "twrap", "rwrap"}, c \in BOOLEAN,
                                    v \in {0, OtherValue}}
    \cup {Pair("interp", "string", c, v) : c \in BOOLEAN, v \in {3, OtherValue}}
    \cup {Pair(n, "string", TRUE, UnknownCode) : n \in TexStringCode}
    \cup {Pair("subimage", "string", c, v) : c \in BOOLEAN, v \in {0, OtherValue}}
TexPairSeqs == UNION {[1 .. n -> TexPairs] : n \in 0 .. MaxPairs}

\* the option sweep of a texture (2D) or texture3d op is generated
GenTextureOptions ==
    /\ ll.on /\ ~ll.built
    /\ ll' = [ll EXCEPT !.built = TRUE,
                        !.calls = llvm_gen_texture_option_calls(ll.ops, ll.tex3d)]
    /\ UNCHANGED <<m_layers, m_optimized, pc, cfg, last, nbind, nconn, ncopy, cg, gen,
                   stat, arr, dual, dict>>

InitTexOpt ==
    /\ m_layers = <<>> /\ m_optimized = FALSE /\ pc = "idle" /\ last = NoLast
    /\ nbind = 0 /\ nconn = 0 /\ ncopy = 0 /\ cg = Idle /\ gen = Idle
    /\ stat = Idle /\ arr = Idle /\ dual = Idle /\ dict = Idle
    /\ cfg = Config(FALSE, TRUE, AllParamNames, {})
    /\ ll \in [on : {TRUE}, built : {FALSE}, ops : TexPairSeqs, tex3d : BOOLEAN,
               calls : {<<>>}]

NextTexOpt == GenTextureOptions

SpecTexOpt == InitTexOpt /\ [][NextTexOpt]_vars

\* the pair's value is a constant equal to the default of its option
DefaultConstant(p) == p.constant /\ p.val = OptDefault(p)
\* the calls emitted for pair a
CallsOf(a) == {k \in 1 .. Len(ll.calls) : ll.calls[k].a = a}
\* whether pair b of the sweep sets its option: it does unless it is a
\* default constant of an option other than wrap and no earlier pair set
\* the option, or a combined or per-axis form of it
RECURSIVE PairSetsOption(_, _)
PairSetsOption(pairs, b) ==
    ~ /\ DefaultConstant(pairs[b]) /\ pairs[b].name # "wrap"
      /\ \A c \in 1 .. b - 1 :
            \/ OptFlags(pairs[c].name) \cap OptFlags(pairs[b].name) = {}
            \/ ~PairSetsOption(pairs, c)

\* C24 (as stated): a pair whose value is a constant equal to the default of
\* its option emits no setter call, wherever it stands in the argument list.
C24_DefaultConstantNeverEmits ==
    (ll.on /\ ll.built) =>
       \A a \in 1 .. Len(ll.ops) : DefaultConstant(ll.ops[a]) => CallsOf(a) = {}

\* C24 (amended): a pair whose value is a constant equal to the default of
\* its option emits no setter call exactly when the option is not wrap and no
\* earlier pair of the sweep has set the option or a combined or per-axis
\* form of it.
C24_DefaultConstantElidedUnlessSet ==
    (ll.on /\ ll.built) =>
       \A a \in 1 .. Len(ll.ops) :
          DefaultConstant(ll.ops[a]) =>
             (CallsOf(a) = {} <=> ~PairSetsOption(ll.ops, a))

\* C24 witness: swidth is set to another value, then width is given its
\* default as a constant, and the setter of width is called; in the same
\* sweep of a 3D lookup the first pair could also have been elided
C24_Witness ==
    /\ ll.on /\ ll.built /\ Len(ll.ops) = 2
    /\ ll.ops[1].name = "swidth" /\ ~DefaultConstant(ll.ops[1])
    /\ ll.ops[2].name = "width" /\ DefaultConstant(ll.ops[2])
    /\ \E k \in CallsOf(2) : ll.calls[k].setter = "stwidth" /\ ll.calls[k].val = 1

\* the fields of the option block a pair gives its value to
PairFields(p, tex3d) ==
    IF p.name = "width" THEN {"swidth", "twidth"} \cup (IF tex3d THEN {"rwidth"} ELSE {})
    ELSE IF p.name = "blur" THEN {"sblur", "tblur"} \cup (IF tex3d THEN {"rblur"} ELSE {})
    ELSE IF p.name = "wrap" THEN {"swrap", "twrap"} \cup (IF tex3d THEN {"rwrap"} ELSE {})
    ELSE IF p.name = "interp" THEN {"interpmode"}
    ELSE IF p.name = "subimage" /\ p.valtype = "string" THEN {"subimagename"}
    ELSE {p.name}
\* the option block after the pairs k .. are applied in order, none left
\* out; a constant name no decoder knows sets nothing
RECURSIVE ApplyPairs(_, _, _, _)
ApplyPairs(opt, pairs, k, tex3d) ==
    IF k > Len(pairs) THEN opt
    ELSE LET p == pairs[k]
             skip == p.constant /\ p.val = UnknownCode
         IN ApplyPairs([f \in DOMAIN opt |->
                           IF ~skip /\ f \in PairFields(p, tex3d) THEN p.val ELSE opt[f]],
                       pairs, k + 1, tex3d)

\* C28: the option block the emitted setter calls produce from the defaults
\* is the block the pairs produce when every one is applied in argument
\* order.
C28_ElisionIsSound ==
    (ll.on /\ ll.built) =>
       run_setters(TextureOptDefaults, ll.calls, 1)
         = ApplyPairs(TextureOptDefaults, ll.ops, 1, ll.tex3d)

\* C28 witness: in a 3D lookup wrap is given a constant mode and then swrap
\* the constant default mode: s wraps by default, t and r by the other mode
C28_Witness ==
    /\ ll.on /\ ll.built /\ ll.tex3d /\ Len(ll.ops) = 2
    /\ ll.ops[1] = Pair("wrap", "string", TRUE, OtherValue)
    /\ ll.ops[2] = Pair("swrap", "string", TRUE, TextureOptDefaults.swrap)
    /\ LET opt == run_setters(TextureOptDefaults, ll.calls, 1)
       IN opt.swrap = TextureOptDefaults.swrap /\ opt.twrap = OtherValue
          /\ opt.rwrap = OtherValue

\* C25: for any two layers of a group, before or after specialization,
\* mergeable(A, B) and mergeable(B, A) give the same result.
C25_MergeableSymmetric ==
    pc = "idle" =>
       \A x, y \in 1 .. nlayers :
          mergeable_result(m_layers[x], m_layers[y], cfg)
            = mergeable_result(m_layers[y], m_layers[x], cfg)

\* ------------------------------------------------------ instance lifecycle
\* The member functions of ShaderInstance called in any order on the
\* instances of one group, with the statistics they keep.  Sizes are in units
\* of one vector element; sizeof(ShaderInstance) is SizeofShaderInstance.
LifeParams ==
    { <<>>, << <<Kd8, NoHint>> >>, << <<Arr(<<1, 2>>), NoHint>> >> }

LifeOn == "alive" \in DOMAIN stat
LifeAlive(l) == l \in 1 .. nlayers /\ stat.alive[l]

\* the statements under spin_lock lock(ss.m_stat_mutex): the three parts and
\* what is added to m_stat_mem_inst and m_stat_memory
adjust_stats(s, symmem, parammem, connectionmem, totalmem) ==
    [s EXCEPT !.m_stat_mem_inst_syms = @ + symmem,
              !.m_stat_mem_inst_paramvals = @ + parammem,
              !.m_stat_mem_inst_connections = @ + connectionmem,
              !.m_stat_mem_inst = @ + totalmem,
              !.m_stat_memory = @ + totalmem]

\* ShaderInstance::ShaderInstance (lines 26-68)
LifeConstruct(m, lazy) ==
    /\ LifeOn /\ pc = "idle" /\ nlayers < MaxLayers
    /\ LET inst == NewInstance(m, LayerNames[nlayers + 1], lazy)
           parammem == parammem_of(inst)
           totalmem == parammem + SizeofShaderInstance
           counted == [stat EXCEPT !.m_stat_instances = @ + 1,
                                   !.alive = Append(@, TRUE),
                                   !.bound = Append(@, FALSE)]
       IN /\ m_layers' = Append(m_layers, inst)
          /\ stat' = adjust_stats(counted, 0, parammem, 0, totalmem)
    /\ last' = NoLast
    /\ UNCHANGED <<m_optimized, pc, cfg, nbind, nconn, ncopy, cg, gen,
                   arr, dual, dict, ll>>

\* ShaderInstance::parameters (lines 185-365), the whole call
LifeParameters(l, params) ==
    /\ LifeOn /\ pc = "idle" /\ LifeAlive(l) /\ nbind < MaxBind
    /\ LET inst == parameters(m_layers[l], params, cfg.relaxed)
           symmem == vectorbytes(inst, "instoverrides")
           parammem == parammem_of(inst)
       IN /\ m_layers' = [m_layers EXCEPT ![l] = inst]
          /\ stat' = adjust_stats([stat EXCEPT !.bound[l] = TRUE],
                                  symmem, parammem, 0, symmem + parammem)
    /\ nbind' = nbind + 1
    /\ last' = NoLast
    /\ UNCHANGED <<m_optimized, pc, cfg, nconn, ncopy, cg, gen,
                   arr, dual, dict, ll>>

\* ShaderInstance::make_symbol_room (lines 368-388)
LifeMakeSymbolRoom(l, moresyms) ==
    /\ LifeOn /\ pc = "idle" /\ LifeAlive(l)
    /\ LET oldsize == vectorbytes(m_layers[l], "instsymbols")
           inst == make_symbol_room(m_layers[l], moresyms)
           mem == vectorbytes(inst, "instsymbols") - oldsize
       IN /\ m_layers' = [m_layers EXCEPT ![l] = inst]
          /\ stat' = IF inst # m_layers[l]
                     THEN adjust_stats(stat, mem, 0, 0, mem)
                     ELSE stat
    /\ last' = NoLast
    /\ UNCHANGED <<m_optimized, pc, cfg, nbind, nconn, ncopy, cg, gen,
                   arr, dual, dict, ll>>

\* ShaderInstance::add_connection (lines 392-437) of parameter sp of an
\* earlier layer to parameter dp, a float to a float, an array to the
\* unsized array, or a closure to the unsized array
LifeAddConnection(l, sp, dp) ==
    /\ LifeOn /\ pc = "idle" /\ LifeAlive(l) /\ nconn < MaxConn
    /\ m_layers[l].master = "matte"
    /\ LET st == mastersymbol(m_layers[l], sp).type
           dt == mastersymbol(m_layers[l], dp).type
           oldmem == vectorbytes(m_layers[l], "connections")
           r == add_connection(m_layers[l], 0, ConnectedParam(sp, st),
                               ConnectedParam(dp, dt))
           mem == vectorbytes(r.inst, "connections") - oldmem
       IN /\ m_layers' = [m_layers EXCEPT ![l] = r.inst]
          /\ pc' = IF r.fatal = "none" THEN "idle" ELSE "aborted"
          /\ stat' = IF r.fatal = "none" THEN adjust_stats(stat, 0, 0, mem, mem)
                     ELSE stat
          /\ last' = [NoLast EXCEPT !.op = "add_connection", !.fatal = r.fatal]
    /\ nconn' = nconn + 1
    /\ UNCHANGED <<m_optimized, cfg, nbind, ncopy, cg, gen,
                   arr, dual, dict, ll>>

\* ShaderInstance::copy_code_from_master (lines 469-524)
LifeCopy(l) ==
    /\ LifeOn /\ pc = "idle" /\ LifeAlive(l) /\ ncopy < MaxCopy
    /\ LET r == copy_code_from_master(m_layers[l], cfg.routputs)
           symmem == vectorbytes(r.inst, "instsymbols")
                       - vectorbytes(m_layers[l], "instoverrides")
       IN /\ m_layers' = [m_layers EXCEPT ![l] = r.inst]
          /\ pc' = IF r.fatal = "none" THEN "idle" ELSE "aborted"
          /\ stat' = IF r.fatal = "none"
                     THEN adjust_stats(stat, symmem, 0, 0, symmem)
                     ELSE stat
          /\ last' = [NoLast EXCEPT !.op = "copy", !.fatal = r.fatal]
    /\ ncopy' = ncopy + 1
    /\ UNCHANGED <<m_optimized, cfg, nbind, nconn, cg, gen,
                   arr, dual, dict, ll>>

\* ShaderInstance::~ShaderInstance (lines 72-92)
LifeDestroy(l) ==
    /\ LifeOn /\ pc = "idle" /\ LifeAlive(l)
    /\ LET inst == m_layers[l]
           symmem == vectorbytes(inst, "instsymbols")
                       + vectorbytes(inst, "instoverrides")
           parammem == parammem_of(inst)
           connectionmem == vectorbytes(inst, "connections")
           totalmem == symmem + parammem + connectionmem + SizeofShaderInstance
           gone == [stat EXCEPT !.m_stat_instances = @ - 1, !.alive[l] = FALSE]
       IN stat' = adjust_stats(gone, 0 - symmem, 0 - parammem,
                               0 - connectionmem, 0 - totalmem)
    /\ last' = NoLast
    /\ UNCHANGED <<m_layers, m_optimized, pc, cfg, nbind, nconn, ncopy, cg, gen,
                   arr, dual, dict, ll>>

InitLife ==
    /\ m_layers = <<>> /\ m_optimized = FALSE /\ pc = "idle" /\ last = NoLast
    /\ nbind = 0 /\ nconn = 0 /\ ncopy = 0 /\ cg = Idle /\ gen = Idle
    /\ arr = Idle /\ dual = Idle /\ dict = Idle /\ ll = Idle
    /\ cfg = Config(FALSE, TRUE, AllParamNames, {})
    /\ stat = [on |-> FALSE, alive |-> <<>>, bound |-> <<>>,
               m_stat_instances |-> 0, m_stat_memory |-> 0, m_stat_mem_inst |-> 0,
               m_stat_mem_inst_syms |-> 0, m_stat_mem_inst_paramvals |-> 0,
               m_stat_mem_inst_connections |-> 0]

NextLife ==
    \/ \E m \in Masters, lazy \in BOOLEAN : LifeConstruct(m, lazy)
    \/ \E l \in 1 .. nlayers, params \in LifeParams : LifeParameters(l, params)
    \/ \E l \in 1 .. nlayers : LifeMakeSymbolRoom(l, 1)
    \/ \E l \in 1 .. nlayers, c \in {<<7, 0>>, <<8, 2>>, <<5, 2>>} :
          LifeAddConnection(l, c[1], c[2])
    \/ \E l \in 1 .. nlayers : LifeCopy(l)
    \/ \E l \in 1 .. nlayers : LifeDestroy(l)

SpecLife == InitLife /\ [][NextLife]_vars

\* C26: in every state reached by constructing instances and calling
\* parameters(), add_connection() and copy_code_from_master() on them in any
\* order, no instance holds both override records and a symbol table or op
\* stream of its own: the override vector has exactly lastparam entries (none
\* for a master without parameters) from the first parameters() call until
\* the instance is specialized, and it is empty afterwards.
C26_OverridesXorPrivateCode ==
    (LifeOn /\ pc = "idle") =>
       \A l \in 1 .. nlayers :
          LET inst == m_layers[l]
          IN /\ ~(Len(inst.instoverrides) > 0 /\ optimized(inst))
             /\ (stat.bound[l] /\ ~optimized(inst))
                   => Len(inst.instoverrides) = Max0(inst.lastparam)
             /\ optimized(inst) => Len(inst.instoverrides) = 0

\* C27: mergeable answers true or false for every two instances of one
\* master, whatever each has been through (never bound, bound, connected,
\* specialized, or one specialized and the other not); none of its fatal
\* assertions fires.
C27_MergeableTotal ==
    (LifeOn /\ pc = "idle") =>
       \A x, y \in 1 .. nlayers :
          (LifeAlive(x) /\ LifeAlive(y) /\ m_layers[x].master = m_layers[y].master)
             => mergeable_result(m_layers[x], m_layers[y], cfg) \in {"true", "false"}

\* C30: once every instance that was constructed has been destroyed, the
\* instance count and each memory counter (total, instance, symbol,
\* parameter-value and connection memory) is back at what it was before the
\* first construction, whatever was called on the instances in between.
C30_AccountingBalanced ==
    (LifeOn /\ pc = "idle" /\ \A l \in 1 .. nlayers : ~stat.alive[l]) =>
       /\ stat.m_stat_instances = 0
       /\ stat.m_stat_memory = 0
       /\ stat.m_stat_mem_inst = 0
       /\ stat.m_stat_mem_inst_syms = 0
       /\ stat.m_stat_mem_inst_paramvals = 0
       /\ stat.m_stat_mem_inst_connections = 0

\* -------------------------------------------------------- node handles
\* dict_find, dict_next and dict_value called in any order on one
\* dictionary.  One dict_find of the run, any of them, is remembered with
\* the handle it returned.
MaxHandles == 3
HandleIDs == -1 .. MaxHandles + 1

\* the decoded values the run may cache
MaxValues == 2

\* the attributes of paint.xml: <b v="7"/> is its first b element, and no
\* other element has an attribute; not found is val == NULL
xml_attribute(node, attribname) ==
    IF node = "b1" /\ attribname = "v" THEN [found |-> TRUE, value |-> "7"]
    ELSE [found |-> FALSE, value |-> ""]

\* pugi::xml_node::value(): the empty string for an element, never NULL
xml_value(node) == [found |-> TRUE, value |-> ""]

\* the characters of a text of the document
Chars(text) == IF text = "7" THEN <<"7">> ELSE <<>>

DecimalDigits == <<"0", "1", "2", "3", "4", "5", "6", "7", "8", "9">>
is_digit(c) == \E k \in 1 .. Len(DecimalDigits) : DecimalDigits[k] = c
digit_value(c) == (CHOOSE k \in 1 .. Len(DecimalDigits) : DecimalDigits[k] = c) - 1

\* OIIO::Strutil::skip_whitespace
RECURSIVE skip_whitespace(_)
skip_whitespace(str) ==
    IF Len(str) > 0 /\ str[1] = " " THEN skip_whitespace(Tail(str)) ELSE str

\* how many digits str begins with, and the number they spell after acc
RECURSIVE leading_digits(_)
leading_digits(str) ==
    IF Len(str) > 0 /\ is_digit(str[1]) THEN 1 + leading_digits(Tail(str)) ELSE 0
RECURSIVE decimal(_, _)
decimal(str, acc) ==
    IF str = <<>> THEN acc ELSE decimal(Tail(str), 10 * acc + digit_value(str[1]))

\* OIIO::Strutil::parse_int(str, val): white space, a sign and digits are
\* taken from the front of str and val is set; when no digits are there,
\* str and val are left as they were (ok is FALSE and v is not meant)
parse_int(str) ==
    LET p == skip_whitespace(str)
        neg == Len(p) > 0 /\ p[1] = "-"
        body == IF Len(p) > 0 /\ p[1] \in {"-", "+"} THEN Tail(p) ELSE p
        nd == leading_digits(body)
        mag == decimal(SubSeq(body, 1, nd), 0)
    IN IF nd = 0 THEN [ok |-> FALSE, str |-> str, v |-> 0]
       ELSE [ok |-> TRUE, str |-> SubSeq(body, nd + 1, Len(body)),
             v |-> IF neg THEN 0 - mag ELSE mag]

\* OIIO::Strutil::parse_float(str, val) of a text without fraction or
\* exponent, which is all the document holds
parse_float(str) == [parse_int(str) EXCEPT !.v = FloatOfInt(@)]

\* OIIO::Strutil::parse_char(str, c): c, after white space, is taken from
\* the front of str, or str is left as it was
parse_char(str, c) ==
    LET p == skip_whitespace(str)
    IN IF Len(p) > 0 /\ p[1] = c THEN Tail(p) ELSE str

\* "int v;" / "float v;" (lines 379, 391) is not initialized, and a parse
\* that fails leaves it so: what is pushed and returned then is whatever the
\* storage held, which can be any value of the type.  Undefined stands for
\* all of them: it equals no number, so that nothing can be derived from it.
Uninitialized == {Undefined}

\* one v for each iteration of the loop over the elements of a numeric type
UninitializedValues(type) ==
    IF type.base \in {"int", "float"}
    THEN [1 .. numelements(type) * type.agg -> Uninitialized]
    ELSE {<<>>}

\* the loops of lines 378-384 and 390-396: n values of the base type parsed
\* from valstr, separated by commas; junk[i] is what v holds in iteration i
\* when it is not set
RECURSIVE decode_values(_, _, _, _)
decode_values(base, valstr, junk, n) ==
    IF n = 0 THEN <<>>
    ELSE LET p == IF base = "int" THEN parse_int(valstr) ELSE parse_float(valstr)
             v == IF p.ok THEN p.v ELSE junk[1]
         IN <<v>> \o decode_values(base, parse_char(p.str, ","), Tail(junk), n - 1)

\* ustring::hash(): what osl_dict_value hands back for a string
ustringhash(text) == [hash |-> text]

AttribNames == {"v", "w", ""}
ValueTypes == {TypeFloat, TypeString, TypeOf("int", 1, 2), TypeUnknown}

\* Dictionary::dict_value (lines 309-402) as osl_dict_value calls it, with
\* treat_ustrings_as_hash: 1 with the values decoded, or 0, and the
\* dictionary with the decoded values cached
dict_value(d, nodeID, attribname, type, junk) ==
    LET node == d.m_nodes[nodeID + 1]
        q == Query(node.document, nodeID, attribname, type)
        n == numelements(type) * type.agg
        val == IF attribname = "" THEN xml_value(node.node)
               ELSE xml_attribute(node.node, attribname)
        pool == IF type.base = "int" THEN "m_intdata" ELSE "m_floatdata"
        offset == d.m_cache[q]
        decoded == decode_values(type.base, Chars(val.value), junk, n)
    IN IF nodeID <= 0 \/ nodeID >= Len(d.m_nodes)
       THEN [dict |-> d, ret |-> 0, data |-> <<>>]
       ELSE IF cached(d, q)
       THEN IF type.base = "string"
            THEN [dict |-> d, ret |-> 1,
                  data |-> <<ustringhash(d.m_stringdata[offset + 1])>>]
            ELSE IF type.base \in {"int", "float"}
            THEN [dict |-> d, ret |-> 1,
                  data |-> [i \in 1 .. n |-> d[pool][offset + i]]]
            ELSE [dict |-> d, ret |-> 0, data |-> <<>>]
       ELSE IF ~val.found
       THEN [dict |-> d, ret |-> 0, data |-> <<>>]
       ELSE IF type.base = "string" /\ n = 1
       THEN [dict |-> [d EXCEPT !.m_stringdata = Append(@, val.value),
                                !.m_cache = MapPut(@, q, Len(d.m_stringdata))],
             ret |-> 1, data |-> <<ustringhash(val.value)>>]
       ELSE IF type.base \in {"int", "float"}
       THEN [dict |-> [d EXCEPT ![pool] = @ \o decoded,
                                !.m_cache = MapPut(@, q, Len(d[pool]))],
             ret |-> 1, data |-> decoded]
       ELSE [dict |-> d, ret |-> 0, data |-> <<>>]

\* the handles a shader visits from h: h, dict_next(h), ... until a handle
\* that is no node; never more than fuel of them
RECURSIVE next_chain(_, _, _)
next_chain(d, h, fuel) ==
    IF h <= 0 \/ h >= Len(d.m_nodes) \/ fuel = 0 THEN <<>>
    ELSE <<h>> \o next_chain(d, dict_next(d, h), fuel - 1)

\* the call remembered: by document name or by node, what it returned and
\* the handles visited from there at that time
NoMark == [set |-> FALSE, byname |-> FALSE, dictionaryname |-> "", nodeID |-> 0,
           query |-> "", ret |-> 0, chain |-> <<>>]
Remember(remember, byname, dictionaryname, nodeID, query, r) ==
    IF remember /\ ~dict.mark.set
    THEN [set |-> TRUE, byname |-> byname, dictionaryname |-> dictionaryname,
          nodeID |-> nodeID, query |-> query, ret |-> r.ret,
          chain |-> next_chain(r.dict, r.ret, Len(r.dict.m_nodes))]
    ELSE dict.mark

HandlesOn == "mark" \in DOMAIN dict

\* osl_dict_find_iss
HandleFindName(dictionaryname, query, remember) ==
    /\ HandlesOn /\ (remember => ~dict.mark.set)
    /\ LET r == dict_find_name(dict.m_dictionary, dictionaryname, query)
       IN /\ Len(r.dict.m_nodes) <= MaxHandles + 1
          /\ dict' = [dict EXCEPT
                !.m_dictionary = r.dict,
                !.mark = Remember(remember, TRUE, dictionaryname, 0, query, r)]
    /\ UNCHANGED <<m_layers, m_optimized, pc, cfg, last, nbind, nconn, ncopy,
                   cg, gen, stat, arr, dual, ll>>

\* osl_dict_find_iis on a node handle
HandleFindNode(nodeID, query, remember) ==
    /\ HandlesOn /\ (remember => ~dict.mark.set)
    /\ LET r == dict_find_node(dict.m_dictionary, nodeID, query)
       IN /\ Len(r.dict.m_nodes) <= MaxHandles + 1
          /\ dict' = [dict EXCEPT
                !.m_dictionary = r.dict,
                !.mark = Remember(remember /\ nodeID > 0
                                     /\ nodeID < Len(dict.m_dictionary.m_nodes),
                                  FALSE, "", nodeID, query, r)]
    /\ UNCHANGED <<m_layers, m_optimized, pc, cfg, last, nbind, nconn, ncopy,
                   cg, gen, stat, arr, dual, ll>>

\* osl_dict_next: nothing of the dictionary changes
HandleNext(nodeID) ==
    /\ HandlesOn
    /\ dict_next(dict.m_dictionary, nodeID) \in 0 .. MaxHandles
    /\ UNCHANGED vars

\* osl_dict_value
HandleValue(nodeID, attribname, type, junk) ==
    /\ HandlesOn
    /\ LET r == dict_value(dict.m_dictionary, nodeID, attribname, type, junk)
       IN /\ Len(r.dict.m_intdata) + Len(r.dict.m_floatdata)
                + Len(r.dict.m_stringdata) <= MaxValues
          /\ dict' = [dict EXCEPT !.m_dictionary = r.dict]
    /\ UNCHANGED <<m_layers, m_optimized, pc, cfg, last, nbind, nconn, ncopy,
                   cg, gen, stat, arr, dual, ll>>

InitHandles ==
    /\ m_layers = <<>> /\ m_optimized = FALSE /\ pc = "idle" /\ last = NoLast
    /\ nbind = 0 /\ nconn = 0 /\ ncopy = 0 /\ cg = Idle /\ gen = Idle
    /\ stat = Idle /\ arr = Idle /\ dual = Idle /\ ll = Idle
    /\ cfg = Config(FALSE, TRUE, AllParamNames, {})
    /\ dict = [on |-> FALSE, m_dictionary |-> NewDictionary, mark |-> NoMark]

NextHandles ==
    \/ \E n \in DocNames, q \in Queries, r \in BOOLEAN : HandleFindName(n, q, r)
    \/ \E id \in HandleIDs, q \in Queries, r \in BOOLEAN : HandleFindNode(id, q, r)
    \/ \E id \in HandleIDs : HandleNext(id)
    \/ \E id \in 0 .. MaxHandles, a \in AttribNames, t \in ValueTypes :
          \E junk \in UninitializedValues(t) : HandleValue(id, a, t, junk)

SpecHandles == InitHandles /\ [][NextHandles]_vars

\* the remembered call made again on the dictionary as it is now
MarkAgain ==
    IF dict.mark.byname
    THEN dict_find_name(dict.m_dictionary, dict.mark.dictionaryname, dict.mark.query)
    ELSE dict_find_node(dict.m_dictionary, dict.mark.nodeID, dict.mark.query)

\* the nodes the remembered query matches in its document, in document order
MarkMatches ==
    LET d == dict.m_dictionary
        n == d.m_nodes[dict.mark.nodeID + 1]
    IN IF dict.mark.byname
       THEN select_nodes(dict.mark.dictionaryname, "", dict.mark.query).matches
       ELSE select_nodes(d.m_documents[n.document + 1], n.node, dict.mark.query).matches

\* C29: after a dict_find, by document name or on a node, returned h for a
\* query with k matches, then in every later state, whatever dict_find,
\* dict_next and dict_value calls were made in between: following dict_next
\* from h visits the same handles as when h was returned, exactly k of
\* them, all different, naming the matches in match order, and then yields
\* 0; and the same dict_find made again returns h and appends no node.
C29_HandlesStable ==
    (HandlesOn /\ dict.mark.set) =>
       LET d == dict.m_dictionary
           chain == next_chain(d, dict.mark.ret, Len(d.m_nodes))
           k == Len(MarkMatches)
       IN /\ chain = dict.mark.chain
          /\ Len(chain) = k
          /\ \A i, j \in 1 .. Len(chain) : i # j => chain[i] # chain[j]
          /\ \A i \in 1 .. Len(chain) : d.m_nodes[chain[i] + 1].node = MarkMatches[i]
          /\ k > 0 => (chain[1] = dict.mark.ret /\ dict_next(d, chain[k]) = 0)
          /\ k = 0 => dict_next(d, dict.mark.ret) = 0
          /\ MarkAgain.ret = dict.mark.ret
          /\ MarkAgain.dict.m_nodes = d.m_nodes

\* the two b elements were found from the first handle of an earlier query
\* and the handles returned are still the chain of two after attributes
\* were decoded and cached as a float and as a string
C29_Witness ==
    /\ HandlesOn /\ dict.mark.set /\ ~dict.mark.byname
    /\ dict.mark.ret > 1
    /\ Len(dict.mark.chain) = 2
    /\ Len(dict.m_dictionary.m_floatdata) > 0
    /\ Len(dict.m_dictionary.m_stringdata) > 0
    /\ MarkAgain.ret = dict.mark.ret

====
